---- MODULE Spec2Model ----
(***************************************************************************)
(* Darwincode: the generation-scheduling and evolutionary-selection engine *)
(* (Orchestrator, LocalWorkflowEngine, JobManager, EvalRunner, Analyzer,   *)
(* EvolutionEngine, RunStateStore).                                        *)
(*                                                                         *)
(* Texts (outputs, details) are modelled by their length; prompts and      *)
(* descriptions by the data they are built from; scores by an integer      *)
(* number of 1/ScoreUnit units, so that p / (p + f + e) is exact.          *)
(***************************************************************************)
EXTENDS Integers, Sequences, FiniteSets, TLC

VARIABLES
    config,        \* DarwinConfig of the run (population_size, max_generations, plan)
    state,         \* Orchestrator.state : RunState
    persisted,     \* the run's JSON document in the state directory
    pc,            \* position of Orchestrator.run
    stepPos,       \* position of `for step in steps` (1-based)
    gen,           \* `gen` of _evolve_step
    hypotheses,    \* `hypotheses` of _evolve_step
    tasks,         \* `tasks` of _evolve_step
    nDispatched,   \* tasks whose workspace and job execute_generation has created
    waits,         \* per task: the Result its wait_for_job returned, or NoResult
    doneOrder,     \* task positions in the order their wait_for_job returned
    results,       \* `results` of _evolve_step
    eval_results,  \* `eval_results` of run_eval / _evolve_step
    winner_id,     \* `winner_id` of _evolve_step / of run
    jobs,          \* substrate: task id -> state of its job
    nextId,        \* source of fresh task ids (uuid4)
    repo,          \* target repository: the task ids whose workspace was copied over it
    error,         \* the exception that run's `except Exception` has caught, or ""
    call,          \* component specifications: the arguments of the call
    ret,           \* component specifications: the returned value
    current_tasks, \* LocalWorkflowEngine._current_tasks
    polls,         \* per task: position and elapsed time of its wait_for_job loop
    deleteReq,     \* task ids for whose job _delete_job was called
    cancels,       \* number of calls of LocalWorkflowEngine.cancel made so far
    api_up,        \* substrate: the API server answers requests
    workspace,     \* substrate: the workspace directory of one task
    deadlines      \* substrate: task id -> active_deadline_seconds of its job

vars == <<config, state, persisted, pc, stepPos, gen, hypotheses, tasks,
          nDispatched, waits, doneOrder, results, eval_results, winner_id,
          jobs, nextId, repo, error, call, ret, current_tasks, polls,
          deleteReq, cancels, api_up, workspace, deadlines>>

engineVars == <<polls, deleteReq, cancels, api_up>>

orchVars == <<config, state, persisted, pc, stepPos, gen, hypotheses, tasks,
              nDispatched, waits, doneOrder, results, eval_results, winner_id,
              jobs, nextId, repo, error>>

----------------------------------------------------------------------------
(* Bounds of the model *)

MaxPop == 2
MaxGen == 2
MaxSteps == 2
MaxTasks == 4
MaxEvals == 3
MaxWaits == 2
MaxTimeout == 1
MaxCancels == 2
MaxCount == 2
MaxOut == 3
MaxFiles == 3
MaxVariants == 6

(* Program constants *)

NoneId == 0
TruncLen == 1000
DetailsKeep == 2000
NumStrategies == 5
TimedOutLen == 20
JobNotFoundLen == 13
PodErrorLen == 11

ScoreUnit == 3 * 4 * 5

Min(a, b) == IF a <= b THEN a ELSE b

----------------------------------------------------------------------------
(* Value objects *)

NoResult ==
    [task_id |-> NoneId, status |-> "pending", output |-> 0, transcript_path |-> NoneId]
NoHypothesis == [generation |-> -1, winner_id |-> NoneId, analysis |-> "", prompt_delta |-> ""]

PlanStep(i) == [index |-> i, description |-> i, prompt |-> i]

\* The oracle-backed decomposition of a plan into n ordered steps.
Decompose(n) == [i \in 1..n |-> PlanStep(i - 1)]

\* ClaudeCodeVendor.build_prompt: base prompt, strategy variant, learnings.
build_prompt(base_prompt, hyps, variant_index) ==
    [base      |-> base_prompt,
     approach  |-> variant_index % NumStrategies,
     learnings |-> [k \in 1..Len(hyps) |-> hyps[k].analysis]]

\* DarwinConfig.timeout: the default of the per-agent timeout, in seconds.
DefaultTimeout == 300

\* create_job: the seconds of budget per generation index, and the budget of a
\* task without parent hypotheses.
SecondsPerGeneration == 60
FreshDeadline == 600

AgentTask(id, generation, step_index, prompt, parents) ==
    [id |-> id, generation |-> generation, step_index |-> step_index,
     prompt |-> prompt, parent_hypotheses |-> parents]

\* Mutant: the id of a task is its position in the population.
create_initial_population_indexed(base_prompt, step_index, population_size, firstId) ==
    [i \in 1..population_size |->
        AgentTask(i, 0, step_index, build_prompt(base_prompt, <<>>, i - 1), <<>>)]

\* EvolutionEngine.create_initial_population; uuid4 gives ids not given before.
create_initial_population(base_prompt, step_index, population_size, firstId) ==
    [i \in 1..population_size |->
        AgentTask(firstId + i - 1, 0, step_index,
                  build_prompt(base_prompt, <<>>, i - 1), <<>>)]

\* Mutant: the tasks are built from the hypotheses but do not carry them.
evolve_without_parents(base_prompt, step_index, generation, population_size, hyps, firstId) ==
    [i \in 1..population_size |->
        AgentTask(firstId + i - 1, generation, step_index,
                  build_prompt(base_prompt, hyps, i - 1), <<>>)]

\* EvolutionEngine.evolve
evolve(base_prompt, step_index, generation, population_size, hyps, firstId) ==
    [i \in 1..population_size |->
        AgentTask(firstId + i - 1, generation, step_index,
                  build_prompt(base_prompt, hyps, i - 1), hyps)]

----------------------------------------------------------------------------
(* The workspace directory of a task *)

\* A file that is not there, a directory that is not there.
Absent == "absent"

\* A repository tree: the content of its code, the content of its validation
\* harness (a protected path), and whether it holds files written by the
\* scoring command (caches, reports).
Tree(code, harness, cache) ==
    [exists |-> TRUE, code |-> code, harness |-> harness, cache |-> cache]

\* The directory is not there.
NoTree == [exists |-> FALSE, code |-> Absent, harness |-> Absent, cache |-> FALSE]

\* <workspaces>/<run id>/<task id>: repo/, pristine/ (the snapshot of the
\* protected paths, here the harness) and the scratch directory eval/.
NoWorkspace == [repo |-> NoTree, pristine |-> Absent, eval |-> NoTree]

\* VolumeManager.prepare_workspace with _save_protected_paths: the target
\* repository is copied to repo/; a protected path that exists in it is copied
\* to pristine/.
prepare_workspace(target, protected) ==
    [repo     |-> target,
     pristine |-> IF protected /\ target.harness # Absent
                  THEN target.harness ELSE Absent,
     eval     |-> NoTree]

----------------------------------------------------------------------------
(* Evaluator *)

\* One summary count of a test runner in the scoring command's output.
Count(n, word) == [n |-> n, word |-> word]

\* re.search(r"(\d+) <word>", output): the first such count, 0 when there is none.
RECURSIVE FirstCount(_, _)
FirstCount(output, word) ==
    IF output = <<>> THEN 0
    ELSE IF Head(output).word = word THEN Head(output).n
    ELSE FirstCount(Tail(output), word)

\* Mutant: the error count is left out of the total.
_parse_test_score_without_errors(output) ==
    LET passed == FirstCount(output, "passed")
        failed == FirstCount(output, "failed")
        total  == passed + failed
    IN  IF total > 0 THEN (passed * ScoreUnit) \div total ELSE 0

\* _parse_test_score
_parse_test_score(output) ==
    LET passed == FirstCount(output, "passed")
        failed == FirstCount(output, "failed")
        errors == FirstCount(output, "error")
        total  == passed + failed + errors
    IN  IF total > 0 THEN (passed * ScoreUnit) \div total ELSE 0

EvalResult(task_id, passed, score, details) ==
    [task_id |-> task_id, passed |-> passed, score |-> score, details |-> details]

StatusLen(status) ==
    CASE status = "pending" -> 7 [] status = "running" -> 7 [] status = "success" -> 7
      [] status = "failure" -> 7 [] status = "timeout" -> 7 [] status = "error" -> 5

\* A run of the scoring command: it timed out, could not be run, or exited with
\* exit_code after writing `output` (its counts), `length` characters long, which
\* holds the expected substring or not.
CmdRun(kind, exit_code, output, length, match) ==
    [kind |-> kind, exit_code |-> exit_code, output |-> output,
     length |-> length, match |-> match]

\* Mutant: under exit-code the score is always the parsed one.
CriteriaParsedAlways(success_criteria, run) ==
    IF success_criteria = "exit-code"
    THEN <<run.exit_code = 0, _parse_test_score(run.output)>>
    ELSE IF success_criteria = "output-match"
    THEN <<run.match, IF run.match THEN ScoreUnit ELSE 0>>
    ELSE LET passed == run.exit_code = 0
         IN  <<passed, IF passed THEN ScoreUnit ELSE 0>>

\* The (passed, score) of a scoring command that ran to its end.
Criteria(success_criteria, run) ==
    IF success_criteria = "exit-code"
    THEN LET passed == run.exit_code = 0
         IN  <<passed, IF passed THEN ScoreUnit ELSE _parse_test_score(run.output)>>
    ELSE IF success_criteria = "output-match"
    THEN <<run.match, IF run.match THEN ScoreUnit ELSE 0>>
    ELSE LET passed == run.exit_code = 0
         IN  <<passed, IF passed THEN ScoreUnit ELSE 0>>

\* Mutant: only a Result that ended without the agent's outcome is skipped.
EvaluableUnlessEnded(status) == status \notin {"timeout", "error"}

\* evaluate, line 21: the statuses whose Result is scored.
Evaluable(status) == status \in {"success", "failure"}

\* EvalRunner.evaluate, lines 21-64: whether a scratch eval directory is
\* created (there is a protected snapshot to overlay) and whether the scoring
\* command is started.
evaluate_effects(result, repo_exists, pristine) ==
    IF ~Evaluable(result.status) \/ ~repo_exists
    THEN [eval_dir |-> FALSE, started |-> FALSE]
    ELSE [eval_dir |-> pristine, started |-> TRUE]

\* EvalRunner.evaluate
evaluate(result, success_criteria, repo_exists, run) ==
    IF ~Evaluable(result.status)
    THEN EvalResult(result.task_id, FALSE, 0, 14 + StatusLen(result.status) + 15)
    ELSE IF ~repo_exists
    THEN EvalResult(result.task_id, FALSE, 0, 24)
    ELSE IF run.kind = "timeout"
    THEN EvalResult(result.task_id, FALSE, 0, 25)
    ELSE IF run.kind = "error"
    THEN EvalResult(result.task_id, FALSE, 0, 12)
    ELSE LET c == Criteria(success_criteria, run)
         IN  EvalResult(result.task_id, c[1], c[2], Min(run.length, DetailsKeep))

\* EvalRunner._prepare_eval_dir: without a pristine/ snapshot the scoring runs
\* in repo/ itself; else repo/ is copied to eval/ and the snapshot is laid over
\* it. A failing copy raises and leaves what was copied.
_prepare_eval_dir(ws, copy_ok) ==
    IF ws.pristine = Absent
    THEN [raised |-> FALSE, dir |-> "repo", ws |-> ws]
    ELSE IF ~copy_ok
    THEN [raised |-> TRUE, dir |-> "eval", ws |-> [ws EXCEPT !.eval = ws.repo]]
    ELSE [raised |-> FALSE, dir |-> "eval",
          ws |-> [ws EXCEPT !.eval = [ws.repo EXCEPT !.harness = ws.pristine]]]

\* The directory `dir` of the workspace after the scoring command has run in
\* it and, when cmd_writes, left files there.
AfterCommand(ws, dir, cmd_writes) ==
    IF ~cmd_writes THEN ws
    ELSE IF dir = "repo" THEN [ws EXCEPT !.repo.cache = TRUE]
    ELSE [ws EXCEPT !.eval.cache = TRUE]

\* EvalRunner.evaluate on the workspace: whether it raised, whether the scoring
\* command was started and the harness it saw, and the workspace afterwards.
\* The scratch directory is removed on the path that reaches lines 98-99 only.
evaluate_workspace(ws, result, run, copy_ok, cmd_writes) ==
    IF ~Evaluable(result.status) \/ ~ws.repo.exists
    THEN [raised |-> FALSE, started |-> FALSE, seen |-> Absent, ws |-> ws]
    ELSE LET prep == _prepare_eval_dir(ws, copy_ok)
             cwd  == IF prep.dir = "repo" THEN prep.ws.repo ELSE prep.ws.eval
         IN  IF prep.raised
             THEN [raised |-> TRUE, started |-> FALSE, seen |-> Absent, ws |-> prep.ws]
             ELSE IF run.kind = "error"
             THEN [raised |-> FALSE, started |-> FALSE, seen |-> Absent, ws |-> prep.ws]
             ELSE IF run.kind = "timeout"
             THEN [raised |-> FALSE, started |-> TRUE, seen |-> cwd.harness,
                   ws |-> AfterCommand(prep.ws, prep.dir, cmd_writes)]
             ELSE [raised |-> FALSE, started |-> TRUE, seen |-> cwd.harness,
                   ws |-> [AfterCommand(prep.ws, prep.dir, cmd_writes)
                              EXCEPT !.eval = NoTree]]

----------------------------------------------------------------------------
(* Analyzer *)

\* Mutant: the last element of maximal score.
LastMax(evals) ==
    CHOOSE i \in 1..Len(evals) :
        /\ \A j \in 1..Len(evals) : evals[j].score <= evals[i].score
        /\ \A j \in (i + 1)..Len(evals) : evals[j].score < evals[i].score

\* max(seq, key=score): the position of the first element of maximal score.
FirstMax(evals) ==
    CHOOSE i \in 1..Len(evals) :
        /\ \A j \in 1..Len(evals) : evals[j].score <= evals[i].score
        /\ \A j \in 1..(i - 1) : evals[j].score < evals[i].score

\* Analyzer.pick_winner
pick_winner(rs, evals) ==
    IF Len(evals) = 0 THEN NoneId
    ELSE LET n    == Min(Len(rs), Len(evals))
             best == FirstMax(SubSeq(evals, 1, n))
         IN  IF evals[best].score > 0 THEN rs[best].task_id ELSE NoneId

Hypothesis(generation, winner, analysis, prompt_delta) ==
    [generation |-> generation, winner_id |-> winner,
     analysis |-> analysis, prompt_delta |-> prompt_delta]

\* Analyzer.analyze, given the oracle's parsed answer: the pairs are sorted by
\* descending score (stable), the winner is the first pair's task.
\* Mutant: among pairs of equal score the sort puts the later one first.
analyze_last_of_ties(rs, evals, generation, data) ==
    LET n == Min(Len(rs), Len(evals))
        w == IF n = 0 THEN NoneId ELSE rs[LastMax(SubSeq(evals, 1, n))].task_id
    IN  Hypothesis(generation, w, data.analysis, data.prompt_delta)

analyze(rs, evals, generation, data) ==
    LET n == Min(Len(rs), Len(evals))
        w == IF n = 0 THEN NoneId ELSE rs[FirstMax(SubSeq(evals, 1, n))].task_id
    IN  Hypothesis(generation, w, data.analysis, data.prompt_delta)

----------------------------------------------------------------------------
(* Run State Store *)

GenerationRecord(generation, step_index, ts, rs, evals, winner, hypothesis) ==
    [generation |-> generation, step_index |-> step_index, tasks |-> ts,
     results |-> rs, eval_results |-> evals, winner_id |-> winner,
     hypothesis |-> hypothesis]

RunState(status, current_step, current_generation, plan_steps, generations, hyps) ==
    [status |-> status, current_step |-> current_step,
     current_generation |-> current_generation, plan_steps |-> plan_steps,
     generations |-> generations, hypotheses |-> hyps]

_serialize_hypothesis(h) ==
    [generation |-> h.generation, winner_id |-> h.winner_id,
     analysis |-> h.analysis, prompt_delta |-> h.prompt_delta]

_serialize_gen(g) ==
    [generation   |-> g.generation,
     step_index   |-> g.step_index,
     tasks        |-> [i \in 1..Len(g.tasks) |->
                          [id |-> g.tasks[i].id,
                           generation |-> g.tasks[i].generation,
                           step_index |-> g.tasks[i].step_index,
                           prompt |-> g.tasks[i].prompt]],
     results      |-> [i \in 1..Len(g.results) |->
                          [task_id |-> g.results[i].task_id,
                           status |-> g.results[i].status,
                           output |-> Min(g.results[i].output, TruncLen)]],
     eval_results |-> [i \in 1..Len(g.eval_results) |->
                          [task_id |-> g.eval_results[i].task_id,
                           passed |-> g.eval_results[i].passed,
                           score |-> g.eval_results[i].score,
                           details |-> Min(g.eval_results[i].details, TruncLen)]],
     winner_id    |-> g.winner_id,
     hypothesis   |-> IF g.hypothesis = NoHypothesis THEN NoHypothesis
                      ELSE _serialize_hypothesis(g.hypothesis)]

_serialize_state(st) ==
    [status             |-> st.status,
     current_step       |-> st.current_step,
     current_generation |-> st.current_generation,
     plan_steps         |-> [i \in 1..Len(st.plan_steps) |->
                                [index |-> st.plan_steps[i].index,
                                 description |-> st.plan_steps[i].description,
                                 prompt |-> st.plan_steps[i].prompt]],
     generations        |-> [i \in 1..Len(st.generations) |->
                                _serialize_gen(st.generations[i])],
     hypotheses         |-> [i \in 1..Len(st.hypotheses) |->
                                _serialize_hypothesis(st.hypotheses[i])]]

_deserialize_hypothesis(d) ==
    Hypothesis(d.generation, d.winner_id, d.analysis, d.prompt_delta)

\* _deserialize_gen: a task comes back without parent hypotheses, a Result
\* without its transcript path (neither is in the document).
_deserialize_gen(d) ==
    GenerationRecord(d.generation, d.step_index,
        [i \in 1..Len(d.tasks) |->
            AgentTask(d.tasks[i].id, d.tasks[i].generation, d.tasks[i].step_index,
                      d.tasks[i].prompt, <<>>)],
        [i \in 1..Len(d.results) |->
            [task_id |-> d.results[i].task_id, status |-> d.results[i].status,
             output |-> d.results[i].output, transcript_path |-> NoneId]],
        [i \in 1..Len(d.eval_results) |->
            EvalResult(d.eval_results[i].task_id, d.eval_results[i].passed,
                       d.eval_results[i].score, d.eval_results[i].details)],
        d.winner_id,
        IF d.hypothesis = NoHypothesis THEN NoHypothesis
        ELSE _deserialize_hypothesis(d.hypothesis))

_deserialize_state(d) ==
    RunState(d.status, d.current_step, d.current_generation,
        [i \in 1..Len(d.plan_steps) |-> PlanStep(d.plan_steps[i].index)],
        [i \in 1..Len(d.generations) |-> _deserialize_gen(d.generations[i])],
        [i \in 1..Len(d.hypotheses) |-> _deserialize_hypothesis(d.hypotheses[i])])

InitialState == RunState("pending", 0, 0, <<>>, <<>>, <<>>)

NoDoc == [kind |-> "none", doc |-> _serialize_state(InitialState)]
CorruptDoc == [kind |-> "corrupt", doc |-> _serialize_state(InitialState)]
Doc(st) == [kind |-> "doc", doc |-> _serialize_state(st)]

\* Mutant: the document is not rewritten.
save_nothing(st, okPc, failPc) ==
    /\ persisted' = persisted
    /\ pc' = okPc
    /\ error' = ""

\* RunStateStore.save: the document is rewritten; a failing write raises and
\* leaves the old document or a partly written one.
save(st, okPc, failPc) ==
    \/ /\ persisted' = Doc(st)
       /\ pc' = okPc
       /\ error' = ""
    \/ /\ persisted' \in {persisted, CorruptDoc}
       /\ pc' = failPc
       /\ error' = "save"

\* A file of the state directory that is JSON but no run document: JSON of
\* another shape (a list, a number), an object that lacks a key, an object
\* whose status is no RunStatus. CorruptDoc is a file that is no JSON.
BadFile(kind) == [kind |-> kind, doc |-> _serialize_state(InitialState)]

\* What json.loads and _deserialize_state raise on a file, "" when they
\* return: indexing a list or a number with a key is a TypeError, RunStatus of
\* an unknown value a ValueError.
ParseError(file) ==
    CASE file.kind = "corrupt"     -> "JSONDecodeError"
      [] file.kind = "wrong_shape" -> "TypeError"
      [] file.kind = "missing_key" -> "KeyError"
      [] file.kind = "bad_status"  -> "ValueError"
      [] OTHER                     -> ""

\* RunStateStore.load: None when there is no file; the parsing is not guarded.
load(file) ==
    IF file.kind = "none"
    THEN [raised |-> "", found |-> FALSE, value |-> InitialState]
    ELSE IF ParseError(file) # ""
    THEN [raised |-> ParseError(file), found |-> FALSE, value |-> InitialState]
    ELSE [raised |-> "", found |-> TRUE, value |-> _deserialize_state(file.doc)]

\* RunStateStore.list_runs over the files in the order of their paths: a file
\* raising JSONDecodeError or KeyError is skipped, any other exception leaves
\* list_runs.
RECURSIVE list_runs(_, _)
list_runs(files, runs) ==
    IF files = <<>> THEN [raised |-> "", value |-> runs]
    ELSE LET e == ParseError(Head(files))
         IN  IF e = ""
             THEN list_runs(Tail(files), Append(runs, _deserialize_state(Head(files).doc)))
             ELSE IF e \in {"JSONDecodeError", "KeyError"}
             THEN list_runs(Tail(files), runs)
             ELSE [raised |-> e, value |-> <<>>]

\* Path.write_text of save, line 35, when the process ends `at` some point of
\* it: open(path, "w") has emptied the file before anything is written.
write_text(old, new, at) ==
    CASE at = "before"  -> old
      [] at = "opened"  -> CorruptDoc
      [] at = "writing" -> CorruptDoc
      [] at = "written" -> new

----------------------------------------------------------------------------
(* Inputs of the run *)

\* population_size >= 1, max_generations >= 1 (DarwinConfig); `plan` is the
\* number of steps the oracle decomposes the plan into.
Configs ==
    {c \in [population_size : 1..MaxPop, max_generations : 1..MaxGen,
            plan : 0..MaxSteps, success_criteria : {"exit-code"},
            timeout : {DefaultTimeout}] :
        c.population_size * c.max_generations * c.plan <= MaxTasks}

\* What a poll of wait_for_job can observe when it returns a Result: the job's
\* condition, the length of results/output.log, and whether the job wrote
\* transcript/raw.jsonl.
Polls ==
    {[kind |-> "succeeded", output |-> 0, transcript |-> TRUE],
     [kind |-> "failed", output |-> TruncLen + 500, transcript |-> FALSE],
     [kind |-> "expired", output |-> 0, transcript |-> FALSE],
     [kind |-> "pod_error", output |-> 0, transcript |-> FALSE],
     [kind |-> "not_found", output |-> 0, transcript |-> FALSE]}

\* The runs of the scoring command.
EvalRuns ==
    {CmdRun("timeout", 0, <<>>, 0, FALSE),
     CmdRun("exit", 0, <<Count(2, "passed")>>, 40, TRUE),
     CmdRun("exit", 1, <<Count(1, "passed")>>, 40, FALSE),
     CmdRun("exit", 1, <<Count(1, "passed"), Count(1, "failed")>>, DetailsKeep + 500, FALSE)}

\* The oracle's answers to an analysis: the call raises, the text is no JSON,
\* or it is a JSON object.
OracleReplies ==
    {[kind |-> "raise", analysis |-> "", prompt_delta |-> ""],
     [kind |-> "garbage", analysis |-> "", prompt_delta |-> ""],
     [kind |-> "json", analysis |-> "why", prompt_delta |-> "delta"]}

----------------------------------------------------------------------------
(* Job Executor *)

AgentResult(task_id, status, output) ==
    [task_id |-> task_id, status |-> status, output |-> output,
     transcript_path |-> NoneId]

\* JobManager._collect_result: the output and, when the file exists, the path
\* of the task's transcript (one per task id).
_collect_result(task_id, status, poll) ==
    [AgentResult(task_id, status, poll.output)
        EXCEPT !.transcript_path = IF poll.transcript THEN task_id ELSE NoneId]

\* Mutant: a job that cannot be read leaves the task running.
wait_for_job_unread_running(task_id, poll) ==
    CASE poll.kind = "expired"   -> AgentResult(task_id, "timeout", TimedOutLen)
      [] poll.kind = "not_found" -> AgentResult(task_id, "running", JobNotFoundLen)
      [] poll.kind = "succeeded" -> _collect_result(task_id, "success", poll)
      [] poll.kind = "failed"    -> _collect_result(task_id, "failure", poll)
      [] poll.kind = "pod_error" -> AgentResult(task_id, "error", PodErrorLen)

\* JobManager.wait_for_job: the Result of the poll that ends the wait.
wait_for_job(task_id, poll) ==
    CASE poll.kind = "expired"   -> AgentResult(task_id, "timeout", TimedOutLen)
      [] poll.kind = "not_found" -> AgentResult(task_id, "error", JobNotFoundLen)
      [] poll.kind = "succeeded" -> _collect_result(task_id, "success", poll)
      [] poll.kind = "failed"    -> _collect_result(task_id, "failure", poll)
      [] poll.kind = "pod_error" -> AgentResult(task_id, "error", PodErrorLen)

\* The task's job on the substrate after that poll (_delete_job on timeout and
\* on a fatal pod condition).
JobAfterPoll(job, poll) ==
    CASE poll.kind = "expired"   -> "deleted"
      [] poll.kind = "not_found" -> job
      [] poll.kind = "succeeded" -> "succeeded"
      [] poll.kind = "failed"    -> "failed"
      [] poll.kind = "pod_error" -> "deleted"

\* Mutant: the results in the order in which the waits returned.
gather_as_completed(ws, order) == [i \in 1..Len(ws) |-> ws[order[i]]]

\* asyncio.gather: the results in the order of the awaitables.
gather(ws, order) == [i \in 1..Len(ws) |-> ws[i]]

\* JobManager._delete_job: the job is gone, or the request fails and the
\* ApiException is swallowed.
_delete_job(job, ok) == IF ok THEN "deleted" ELSE job

\* The jobs the substrate lists for the run's label.
Listed(js) == {t \in DOMAIN js : js[t] # "deleted"}

\* JobManager.cleanup_jobs: the run's jobs are listed and deletion is requested
\* for each; a failing listing is logged and nothing is deleted.
cleanup_jobs(js, list_ok, failing) ==
    [t \in DOMAIN js |->
        IF list_ok /\ t \in Listed(js) THEN _delete_job(js[t], t \notin failing)
        ELSE js[t]]

----------------------------------------------------------------------------
(* Orchestrator *)

P == config.population_size

\* Mutant: one generation more than configured.
GOneMore == config.max_generations + 1

G == config.max_generations

CurrentStep == state.plan_steps[stepPos]

\* The record of the generation just executed and evaluated.
Record(winner, hypothesis) ==
    GenerationRecord(gen, CurrentStep.index, tasks, results, eval_results,
                     winner, hypothesis)

\* Mutant: the step ends only when every Evaluation passed.
BestPassedAll(evals) ==
    Len(evals) > 0 /\ \A i \in 1..Len(evals) : evals[i].passed

\* best_eval and best_eval.passed: the first Evaluation of maximal score passed.
BestPassed(evals) ==
    Len(evals) > 0 /\ evals[FirstMax(evals)].passed

\* Mutant: off by one, the last generation is analysed too.
GenerationsRemainOffByOne(g, max_generations) == g < max_generations

\* `if gen < self.config.max_generations - 1`: a generation remains.
GenerationsRemain(g, max_generations) == g < max_generations - 1

\* Mutant: the commit is not guarded by the winner.
HasWinnerAlways(w) == TRUE

\* `if winner_id:` of run
HasWinner(w) == w # NoneId

OrchInit ==
    /\ config \in Configs
    /\ state = InitialState
    /\ persisted = NoDoc
    /\ pc = "init"
    /\ stepPos = 0
    /\ gen = 0
    /\ hypotheses = <<>>
    /\ tasks = <<>>
    /\ nDispatched = 0
    /\ waits = <<>>
    /\ doneOrder = <<>>
    /\ results = <<>>
    /\ eval_results = <<>>
    /\ winner_id = NoneId
    /\ jobs = <<>>
    /\ nextId = 1
    /\ repo = <<>>
    /\ error = ""
    /\ current_tasks = <<>>
    /\ polls = <<>>
    /\ deleteReq = {}
    /\ cancels = 0
    /\ api_up = TRUE
    /\ workspace = NoWorkspace
    /\ deadlines = <<>>

Init ==
    /\ OrchInit
    /\ call = <<>>
    /\ ret = <<>>

\* The frames of run and _evolve_step are gone: their locals are dead.
Unwound ==
    /\ stepPos' = 0
    /\ gen' = 0
    /\ hypotheses' = <<>>
    /\ tasks' = <<>>
    /\ nDispatched' = 0
    /\ waits' = <<>>
    /\ doneOrder' = <<>>
    /\ results' = <<>>
    /\ eval_results' = <<>>
    /\ winner_id' = NoneId

\* run, lines 64-65: RUNNING, saved before the try block.
RunStart ==
    /\ pc = "init"
    /\ state' = [state EXCEPT !.status = "running"]
    /\ save(state', "ensure_ready", "raised")
    /\ UNCHANGED <<deadlines, workspace, engineVars, current_tasks, call, ret, config, stepPos, gen, hypotheses, tasks, nDispatched, waits,
                   doneOrder, results, eval_results, winner_id, jobs, nextId, repo>>

\* run, line 71: infra.ensure_ready() returns or raises.
EnsureReady ==
    /\ pc = "ensure_ready"
    /\ \/ pc' = "decompose" /\ error' = ""
       \/ pc' = "except_exception" /\ error' = "infra"
    /\ UNCHANGED <<deadlines, workspace, engineVars, current_tasks, call, ret, config, state, persisted, stepPos, gen, hypotheses, tasks,
                   nDispatched, waits, doneOrder, results, eval_results,
                   winner_id, jobs, nextId, repo>>

\* run, lines 75-77: the plan is decomposed and saved, or the oracle fails.
DecomposePlan ==
    /\ pc = "decompose"
    /\ \/ /\ state' = [state EXCEPT !.plan_steps = Decompose(config.plan)]
          /\ save(state', "for_step", "except_exception")
          /\ stepPos' = 1
       \/ /\ pc' = "except_exception"
          /\ error' = "decompose"
          /\ UNCHANGED <<state, persisted, stepPos>>
    /\ UNCHANGED <<deadlines, workspace, engineVars, current_tasks, call, ret, config, gen, hypotheses, tasks, nDispatched, waits, doneOrder,
                   results, eval_results, winner_id, jobs, nextId, repo>>

\* run, lines 81-83: the next step becomes the current step.
StepStart ==
    /\ pc = "for_step"
    /\ stepPos <= Len(state.plan_steps)
    /\ state' = [state EXCEPT !.current_step = CurrentStep.index]
    /\ save(state', "for_gen", "except_exception")
    /\ gen' = 0
    /\ hypotheses' = <<>>
    /\ winner_id' = NoneId
    /\ UNCHANGED <<deadlines, workspace, engineVars, current_tasks, call, ret, config, stepPos, tasks, nDispatched, waits, doneOrder,
                   results, eval_results, jobs, nextId, repo>>

\* _evolve_step, lines 117-130: the generation starts and its population is built.
GenStart ==
    /\ pc = "for_gen"
    /\ gen < G
    /\ state' = [state EXCEPT !.current_generation = gen]
    /\ \/ /\ persisted' = Doc(state')
          /\ pc' = "dispatch"
          /\ tasks' = IF gen = 0
                      THEN create_initial_population(CurrentStep.prompt,
                               CurrentStep.index, P, nextId)
                      ELSE evolve(CurrentStep.prompt, CurrentStep.index, gen, P,
                               hypotheses, nextId)
          /\ nextId' = nextId + P
          /\ error' = ""
       \/ /\ persisted' \in {persisted, CorruptDoc}
          /\ pc' = "except_exception"
          /\ error' = "save"
          /\ UNCHANGED <<tasks, nextId>>
    /\ nDispatched' = 0
    /\ UNCHANGED <<deadlines, workspace, engineVars, current_tasks, call, ret, config, stepPos, gen, hypotheses, waits, doneOrder, results,
                   eval_results, winner_id, jobs, repo>>

\* create_job, lines 125-127: the time the substrate gives the job.
active_deadline_seconds(task) ==
    IF task.parent_hypotheses # <<>>
    THEN task.parent_hypotheses[1].generation * SecondsPerGeneration
    ELSE FreshDeadline

\* execute_generation, lines 53-59: the workspace of the next task is
\* provisioned and its job created, or one of the two raises.
DispatchTask ==
    /\ pc = "dispatch"
    /\ nDispatched < Len(tasks)
    /\ current_tasks' = tasks
    /\ \/ /\ jobs' = jobs @@ (tasks[nDispatched + 1].id :> "active")
          /\ deadlines' = deadlines @@
                 (tasks[nDispatched + 1].id :>
                     active_deadline_seconds(tasks[nDispatched + 1]))
          /\ nDispatched' = nDispatched + 1
          /\ IF nDispatched + 1 = Len(tasks)
             THEN /\ pc' = "await_jobs"
                  /\ waits' = [i \in 1..Len(tasks) |-> NoResult]
             ELSE /\ pc' = "dispatch"
                  /\ waits' = waits
          /\ error' = ""
       \/ /\ pc' = "except_exception"
          /\ error' = "dispatch"
          /\ UNCHANGED <<jobs, deadlines, nDispatched, waits>>
    /\ UNCHANGED <<workspace, engineVars, call, ret, config, state, persisted, stepPos, gen, hypotheses, tasks,
                   doneOrder, results, eval_results, winner_id, nextId, repo>>

\* wait_for_job of task i returns: the jobs of a generation end in any order.
WaitForJob(i) ==
    /\ pc = "await_jobs"
    /\ waits[i] = NoResult
    /\ \E poll \in Polls :
          /\ waits' = [waits EXCEPT ![i] = wait_for_job(tasks[i].id, poll)]
          /\ jobs' = [jobs EXCEPT ![tasks[i].id] = JobAfterPoll(@, poll)]
    /\ doneOrder' = Append(doneOrder, i)
    /\ UNCHANGED <<deadlines, workspace, engineVars, current_tasks, error, call, ret, config, state, persisted, pc, stepPos, gen, hypotheses, tasks,
                   nDispatched, results, eval_results, winner_id, nextId, repo>>

\* execute_generation, lines 62-66: every wait has returned, gather returns.
GatherReturn ==
    /\ pc = "await_jobs"
    /\ \A i \in 1..Len(waits) : waits[i] # NoResult
    /\ results' = gather(waits, doneOrder)
    /\ eval_results' = <<>>
    /\ pc' = "run_eval"
    /\ UNCHANGED <<deadlines, workspace, engineVars, current_tasks, error, call, ret, config, state, persisted, stepPos, gen, hypotheses,
                   tasks, nDispatched, waits, doneOrder, winner_id, jobs, nextId, repo>>

\* run_eval, lines 72-74: the next Result is evaluated, or preparing its eval
\* directory raises.
EvaluateNext ==
    /\ pc = "run_eval"
    /\ Len(eval_results) < Len(results)
    /\ \/ /\ \E run \in EvalRuns :
                eval_results' = Append(eval_results,
                    evaluate(results[Len(eval_results) + 1],
                             config.success_criteria, TRUE, run))
          /\ pc' = IF Len(eval_results) + 1 = Len(results)
                   THEN "record" ELSE "run_eval"
          /\ error' = error
       \/ /\ results[Len(eval_results) + 1].status \in {"success", "failure"}
          /\ eval_results' = eval_results
          /\ pc' = "except_exception"
          /\ error' = "eval"
    /\ waits' = <<>>
    /\ doneOrder' = <<>>
    /\ UNCHANGED <<deadlines, workspace, engineVars, current_tasks, call, ret, config, state, persisted, stepPos, gen, hypotheses,
                   tasks, nDispatched, results, winner_id, jobs, nextId, repo>>

\* _evolve_step, lines 141-161 and 164, 173-177: the winner is picked; a passing
\* best Evaluation ends the step; otherwise the analysis follows when a
\* generation remains, and else the record is appended and the loop ends.
PickAndCheck ==
    /\ pc = "record"
    /\ IF BestPassed(eval_results)
       THEN /\ winner_id' = eval_results[FirstMax(eval_results)].task_id
            /\ state' = [state EXCEPT !.generations =
                             Append(@, Record(winner_id', NoHypothesis))]
            /\ save(state', "step_done", "except_exception")
       ELSE IF GenerationsRemain(gen, G)
       THEN /\ winner_id' = pick_winner(results, eval_results)
            /\ pc' = "analyze"
            /\ UNCHANGED <<state, persisted, error>>
       ELSE /\ winner_id' = pick_winner(results, eval_results)
            /\ state' = [state EXCEPT !.generations =
                             Append(@, Record(winner_id', NoHypothesis))]
            /\ save(state', "step_done", "except_exception")
    /\ UNCHANGED <<deadlines, workspace, engineVars, current_tasks, call, ret, config, stepPos, gen, hypotheses, tasks, nDispatched, waits,
                   doneOrder, results, eval_results, jobs, nextId, repo>>

\* _evolve_step, lines 165-174: the oracle is asked for a hypothesis; the
\* record is appended with it and saved, and the next generation follows.
\* show_hypothesis (line 171) renders the oracle's text as console markup
\* after the hypothesis was appended to the run and before the record is:
\* it raises on text that is not well-formed markup.
Analyze ==
    /\ pc = "analyze"
    /\ \E reply \in OracleReplies :
          \/ /\ reply.kind = "json"
             /\ LET h == analyze(results, eval_results, gen, reply)
                IN  /\ hypotheses' = Append(hypotheses, h)
                    /\ state' = [state EXCEPT
                           !.hypotheses = Append(@, h),
                           !.generations = Append(@, Record(winner_id, h))]
             /\ save(state', IF gen + 1 < G THEN "for_gen" ELSE "step_done",
                     "except_exception")
             /\ gen' = gen + 1
             /\ tasks' = <<>>
             /\ results' = <<>>
             /\ eval_results' = <<>>
          \/ /\ reply.kind = "json"
             /\ LET h == analyze(results, eval_results, gen, reply)
                IN  /\ hypotheses' = Append(hypotheses, h)
                    /\ state' = [state EXCEPT !.hypotheses = Append(@, h)]
             /\ pc' = "except_exception"
             /\ error' = "display"
             /\ UNCHANGED <<persisted, gen, tasks, results, eval_results>>
          \/ /\ reply.kind # "json"
             /\ pc' = "except_exception"
             /\ error' = "analysis"
             /\ UNCHANGED <<state, persisted, hypotheses, gen, tasks, results,
                            eval_results>>
    /\ UNCHANGED <<deadlines, workspace, engineVars, current_tasks, call, ret, config, stepPos, nDispatched, waits, doneOrder,
                   winner_id, jobs, nextId, repo>>

\* _apply_winner: the winner's repo is copied over the target repository when
\* its patch file exists and is not empty.
_apply_winner(w, patch_present) ==
    IF patch_present THEN Append(repo, w) ELSE repo

\* run, lines 88-93: the step's winner is committed, if there is one, and the
\* loop goes to the next step.
CommitStep ==
    /\ pc = "step_done"
    /\ \/ /\ HasWinner(winner_id)
          /\ \E patch_present \in BOOLEAN :
                repo' = _apply_winner(winner_id, patch_present)
          /\ pc' = "for_step"
          /\ error' = ""
       \/ /\ HasWinner(winner_id)
          /\ repo' = _apply_winner(winner_id, TRUE)
          /\ pc' = "except_exception"
          /\ error' = "apply"
       \/ /\ ~HasWinner(winner_id)
          /\ repo' = repo
          /\ pc' = "for_step"
          /\ error' = ""
    /\ stepPos' = IF pc' = "for_step" THEN stepPos + 1 ELSE stepPos
    /\ tasks' = <<>>
    /\ results' = <<>>
    /\ eval_results' = <<>>
    /\ UNCHANGED <<deadlines, workspace, engineVars, current_tasks, call, ret, config, state, persisted, gen, hypotheses, nDispatched, waits,
                   doneOrder, winner_id, jobs, nextId>>

\* run, lines 95-96: every step is done: COMPLETED, saved.
Complete ==
    /\ pc = "for_step"
    /\ stepPos > Len(state.plan_steps)
    /\ state' = [state EXCEPT !.status = "completed"]
    /\ save(state', "show_completed", "except_exception")
    /\ UNCHANGED <<deadlines, workspace, engineVars, current_tasks, call, ret, config, stepPos, gen, hypotheses, tasks, nDispatched, waits,
                   doneOrder, results, eval_results, winner_id, jobs, nextId, repo>>

\* run, lines 97 and 111: the summary is shown and run returns, or printing it
\* raises.
ShowCompleted ==
    /\ pc = "show_completed"
    /\ \/ pc' = "returned" /\ error' = error
       \/ pc' = "except_exception" /\ error' = "display"
    /\ Unwound
    /\ UNCHANGED <<deadlines, workspace, engineVars, current_tasks, call, ret, config, state, persisted, jobs, nextId, repo>>

\* The positions of the try block at which the coroutine of run itself is
\* executing, where a KeyboardInterrupt is raised into it.
InterruptPcs ==
    {"ensure_ready", "decompose", "for_step", "for_gen", "dispatch", "run_eval",
     "record", "analyze", "step_done", "show_completed"}

\* An explicit interrupt reaches run inside its try block.
KeyboardInterrupt ==
    /\ pc \in InterruptPcs
    /\ pc' = "except_interrupt"
    /\ UNCHANGED <<deadlines, workspace, engineVars, current_tasks, error, call, ret, config, state, persisted, stepPos, gen, hypotheses, tasks,
                   nDispatched, waits, doneOrder, results, eval_results,
                   winner_id, jobs, nextId, repo>>

\* The interrupt arrives while run is suspended in an await: asyncio.run
\* cancels the task, the CancelledError matches neither handler of run and
\* leaves it.
CancelledError ==
    /\ pc \in {"await_jobs", "run_eval"}
    /\ pc' = "raised"
    /\ error' = "cancelled"
    /\ Unwound
    /\ UNCHANGED <<deadlines, workspace, engineVars, current_tasks, call, ret, config, state, persisted, jobs, nextId, repo>>

\* run, lines 99-103 and 111: engine.cancel(), then CANCELLED, saved.
HandleKeyboardInterrupt ==
    /\ pc = "except_interrupt"
    /\ jobs' = cleanup_jobs(jobs, TRUE, {})
    /\ current_tasks' = <<>>
    /\ state' = [state EXCEPT !.status = "cancelled"]
    /\ save(state', "returned", "raised")
    /\ Unwound
    /\ UNCHANGED <<deadlines, workspace, engineVars, call, ret, config, nextId, repo>>

\* Mutant: the handler saves without setting FAILED.
HandleExceptionKeepsStatus ==
    /\ pc = "except_exception"
    /\ state' = state
    /\ save(state', "returned", "raised")
    /\ Unwound
    /\ UNCHANGED <<deadlines, workspace, engineVars, current_tasks, call, ret, config, jobs, nextId, repo>>

\* run, lines 105-111: FAILED, saved.
HandleException ==
    /\ pc = "except_exception"
    /\ state' = [state EXCEPT !.status = "failed"]
    /\ save(state', "returned", "raised")
    /\ Unwound
    /\ UNCHANGED <<deadlines, workspace, engineVars, current_tasks, call, ret, config, jobs, nextId, repo>>

Next ==
    \/ RunStart
    \/ EnsureReady
    \/ DecomposePlan
    \/ StepStart
    \/ GenStart
    \/ DispatchTask
    \/ \E i \in 1..MaxPop + 1 : i <= Len(waits) /\ WaitForJob(i)
    \/ GatherReturn
    \/ EvaluateNext
    \/ PickAndCheck
    \/ Analyze
    \/ CommitStep
    \/ Complete
    \/ ShowCompleted
    \/ KeyboardInterrupt
    \/ CancelledError
    \/ HandleKeyboardInterrupt
    \/ HandleException

Spec == Init /\ [][Next]_vars

\* run is one coroutine: as long as the calls it awaits return, it goes on.
SpecFair == Spec /\ WF_vars(Next)

----------------------------------------------------------------------------
(* Analyzer.pick_winner on its own *)

\* The (passed, score) pairs an Evaluation can hold.
EvalOutcomes ==
    {<<TRUE, ScoreUnit>>, <<FALSE, ScoreUnit>>, <<FALSE, ScoreUnit \div 2>>,
     <<FALSE, 0>>}

\* The calls of pick_winner: up to MaxEvals results, each with its Evaluation.
PickCalls ==
    {[fn      |-> "pick_winner",
      results |-> [i \in 1..Len(o) |-> AgentResult(i, "success", 0)],
      evals   |-> [i \in 1..Len(o) |-> EvalResult(i, o[i][1], o[i][2], 0)]] :
        o \in UNION {[1..n -> EvalOutcomes] : n \in 0..MaxEvals}}

NoReturn == [done |-> FALSE, value |-> NoneId]

IdleConfig ==
    [population_size |-> 1, max_generations |-> 1, plan |-> 0,
     success_criteria |-> "exit-code", timeout |-> DefaultTimeout]

PickInit ==
    /\ OrchInit
    /\ config = IdleConfig
    /\ call \in PickCalls
    /\ ret = NoReturn

CallPickWinner ==
    /\ call.fn = "pick_winner"
    /\ ~ret.done
    /\ ret' = [done |-> TRUE, value |-> pick_winner(call.results, call.evals)]
    /\ UNCHANGED <<deadlines, workspace, engineVars, current_tasks, call, config, state, persisted, pc, stepPos, gen, hypotheses,
                   tasks, nDispatched, waits, doneOrder, results, eval_results,
                   winner_id, jobs, nextId, repo, error>>

PickNext == CallPickWinner

SpecPick == PickInit /\ [][PickNext]_vars

----------------------------------------------------------------------------
(* EvalRunner.evaluate on its own *)

AgentStatuses == {"pending", "running", "success", "failure", "timeout", "error"}

\* What a scoring command's output holds: counts of a test summary
\* ("<n> passed", "<n> failed", "<n> error") and other text ("<n> skipped").
Tokens == {Count(n, w) : n \in 0..MaxCount, w \in {"passed", "failed", "error", "other"}}

\* The outputs of at most two such parts.
Summaries ==
    {<<>>} \cup {<<t>> : t \in Tokens} \cup {<<t, u>> : t \in Tokens, u \in Tokens}

\* The scoring commands that run to their end: exit code, output, and whether
\* the output holds the expected substring.
ScoredRuns ==
    {CmdRun("exit", x, o, 40, m) : x \in {0, 1}, o \in Summaries, m \in BOOLEAN}

\* The calls of evaluate: a Result of any status, the success criteria, whether
\* the task's repo copy and a protected snapshot exist, and what the scoring
\* command would do.
EvalCalls ==
    {[fn               |-> "evaluate",
      result           |-> AgentResult(1, st, 0),
      success_criteria |-> sc,
      repo_exists      |-> re,
      pristine         |-> pr,
      run              |-> run] :
        st \in AgentStatuses, sc \in {"exit-code", "output-match", "other"},
        re \in BOOLEAN, pr \in BOOLEAN,
        run \in EvalRuns \cup {CmdRun("error", 0, <<>>, 0, FALSE)} \cup ScoredRuns}

EvalInit ==
    /\ OrchInit
    /\ config = IdleConfig
    /\ call \in EvalCalls
    /\ ret = NoReturn

CallEvaluate ==
    /\ call.fn = "evaluate"
    /\ ~ret.done
    /\ ret' = [done    |-> TRUE,
               value   |-> evaluate(call.result, call.success_criteria,
                                    call.repo_exists, call.run),
               effects |-> evaluate_effects(call.result, call.repo_exists,
                                            call.pristine)]
    /\ UNCHANGED <<deadlines, workspace, engineVars, current_tasks, call, config, state, persisted, pc,
                   stepPos, gen, hypotheses, tasks, nDispatched, waits, doneOrder,
                   results, eval_results, winner_id, jobs, nextId, repo, error>>

EvalNext == CallEvaluate

SpecEval == EvalInit /\ [][EvalNext]_vars

----------------------------------------------------------------------------
(* RunStateStore on its own: save then load, list_runs, a save that the end of
   the process interrupts *)

StoreHypothesis == Hypothesis(0, 1, "why", "delta")

\* GenerationRecords with and without tasks, parent hypotheses, Results with
\* a transcript path and a long output, Evaluations with long details, a
\* winner, a hypothesis.
StoreGens ==
    {GenerationRecord(0, 0, ts, rs, es, w, h) :
        ts \in {<<>>, <<AgentTask(1, 0, 0, build_prompt(0, <<>>, 0), <<>>)>>,
                <<AgentTask(1, 1, 0, build_prompt(0, <<StoreHypothesis>>, 0),
                            <<StoreHypothesis>>)>>},
        rs \in {<<>>, <<AgentResult(1, "failure", 40)>>,
                <<_collect_result(1, "success",
                      [kind |-> "succeeded", output |-> TruncLen + 500,
                       transcript |-> TRUE])>>},
        es \in {<<>>, <<EvalResult(1, TRUE, ScoreUnit, 40)>>,
                <<EvalResult(1, FALSE, 0, TruncLen + 1)>>},
        w \in {NoneId, 1},
        h \in {NoHypothesis, StoreHypothesis}}

RunStatuses == {"pending", "running", "completed", "failed", "cancelled"}

StoreStates ==
    {RunState(st, 0, 0, <<>>, gs, <<>>) :
        st \in RunStatuses, gs \in {<<>>} \cup {<<g>> : g \in StoreGens}}

\* The files a state directory can hold.
StoreFiles ==
    {Doc(RunState(st, 0, 0, <<>>, <<>>, <<>>)) : st \in {"running", "completed"}}
        \cup {CorruptDoc, BadFile("wrong_shape"), BadFile("missing_key"),
              BadFile("bad_status")}

RECURSIVE DirsOfLen(_)
DirsOfLen(n) ==
    IF n = 0 THEN {<<>>}
    ELSE {Append(d, f) : d \in DirsOfLen(n - 1), f \in StoreFiles}

\* The run whose document an interrupted save rewrites: one generation is
\* persisted, the state to save holds a second one.
SavedBefore ==
    RunState("running", 0, 0, <<PlanStep(0)>>,
        <<GenerationRecord(0, 0, <<>>, <<>>, <<>>, NoneId, NoHypothesis)>>, <<>>)

StoreCalls ==
    {[fn |-> "save_load", state |-> st, files |-> <<>>] : st \in StoreStates}
        \cup {[fn |-> "list_runs", state |-> InitialState, files |-> d] :
                 d \in UNION {DirsOfLen(n) : n \in 0..MaxFiles}}
        \cup {[fn |-> "save", files |-> <<>>,
               state |-> [SavedBefore EXCEPT
                   !.current_generation = 1,
                   !.generations = Append(@,
                       GenerationRecord(1, 0, <<>>, <<>>, <<>>, w, NoHypothesis))]] :
                 w \in {NoneId, 1}}

StoreInit ==
    /\ OrchInit
    /\ config = IdleConfig
    /\ call \in StoreCalls
    /\ ret = NoReturn

\* save(state) and then load(state.id).
SaveThenLoad ==
    /\ call.fn = "save_load"
    /\ ~ret.done
    /\ persisted' = Doc(call.state)
    /\ ret' = [done   |-> TRUE,
               raised |-> load(persisted').raised,
               value  |-> load(persisted').value]
    /\ UNCHANGED <<deadlines, workspace, engineVars, current_tasks, call, config, state, pc,
                   stepPos, gen, hypotheses, tasks, nDispatched, waits, doneOrder,
                   results, eval_results, winner_id, jobs, nextId, repo, error>>

\* list_runs() over the directory of the call.
ListRuns ==
    /\ call.fn = "list_runs"
    /\ ~ret.done
    /\ ret' = [done   |-> TRUE,
               raised |-> list_runs(call.files, <<>>).raised,
               value  |-> list_runs(call.files, <<>>).value]
    /\ UNCHANGED <<deadlines, workspace, engineVars, current_tasks, call, config, state,
                   persisted, pc, stepPos, gen, hypotheses, tasks, nDispatched, waits,
                   doneOrder, results, eval_results, winner_id, jobs, nextId, repo,
                   error>>

\* The document of the run holds SavedBefore; save(state) is called and the
\* process ends during it, or after it; the document is loaded afterwards.
SaveInterrupted ==
    /\ call.fn = "save"
    /\ ~ret.done
    /\ \E at \in {"before", "opened", "writing", "written"} :
          persisted' = write_text(Doc(SavedBefore), Doc(call.state), at)
    /\ ret' = [done   |-> TRUE,
               raised |-> load(persisted').raised,
               value  |-> load(persisted').value]
    /\ UNCHANGED <<deadlines, workspace, engineVars, current_tasks, call, config, state, pc,
                   stepPos, gen, hypotheses, tasks, nDispatched, waits, doneOrder,
                   results, eval_results, winner_id, jobs, nextId, repo, error>>

StoreNext ==
    \/ SaveThenLoad
    \/ ListRuns
    \/ SaveInterrupted

SpecStore == StoreInit /\ [][StoreNext]_vars

----------------------------------------------------------------------------
(* EvolutionEngine on its own: the populations it builds *)

\* The calls of create_initial_population and of evolve: a base prompt, a step,
\* a population size up to MaxVariants, and for evolve a generation and the
\* hypotheses so far.
PopulationCalls ==
    {[fn |-> "create_initial_population", base_prompt |-> b, step_index |-> s,
      generation |-> 0, population_size |-> n, hypotheses |-> <<>>] :
        b \in 0..1, s \in 0..1, n \in 1..MaxVariants}
    \cup
    {[fn |-> "evolve", base_prompt |-> b, step_index |-> s,
      generation |-> Len(hs), population_size |-> n, hypotheses |-> hs] :
        b \in 0..1, s \in 0..1, n \in 1..MaxVariants,
        hs \in {<<Hypothesis(0, w, "why", "delta")>> : w \in {NoneId, 1}}
               \cup {<<Hypothesis(0, 1, "why", "delta"),
                       Hypothesis(1, w, "because", "delta")>> : w \in {NoneId, 2}}}

PopulationInit ==
    /\ OrchInit
    /\ config = IdleConfig
    /\ call \in PopulationCalls
    /\ ret = NoReturn

CallCreateInitialPopulation ==
    /\ call.fn = "create_initial_population"
    /\ ~ret.done
    /\ ret' = [done  |-> TRUE,
               value |-> create_initial_population(call.base_prompt, call.step_index,
                             call.population_size, nextId)]
    /\ nextId' = nextId + call.population_size
    /\ UNCHANGED <<deadlines, workspace, engineVars, current_tasks, call, config, state,
                   persisted, pc, stepPos, gen, hypotheses, tasks, nDispatched, waits,
                   doneOrder, results, eval_results, winner_id, jobs, repo, error>>

CallEvolve ==
    /\ call.fn = "evolve"
    /\ ~ret.done
    /\ ret' = [done  |-> TRUE,
               value |-> evolve(call.base_prompt, call.step_index, call.generation,
                             call.population_size, call.hypotheses, nextId)]
    /\ nextId' = nextId + call.population_size
    /\ UNCHANGED <<deadlines, workspace, engineVars, current_tasks, call, config, state,
                   persisted, pc, stepPos, gen, hypotheses, tasks, nDispatched, waits,
                   doneOrder, results, eval_results, winner_id, jobs, repo, error>>

PopulationNext ==
    \/ CallCreateInitialPopulation
    \/ CallEvolve

SpecPopulation == PopulationInit /\ [][PopulationNext]_vars

----------------------------------------------------------------------------
(* _parse_test_score on its own *)

RECURSIVE OutputsOfLen(_)
OutputsOfLen(n) ==
    IF n = 0 THEN {<<>>}
    ELSE {Append(o, t) : o \in OutputsOfLen(n - 1), t \in Tokens}

\* The outputs of the tests of _parse_test_score: "8 passed, 2 failed",
\* "10 passed", "some random output", and failure traces before
\* "3 passed, 2 failed in 1.23s".
TestOutputs ==
    {<<Count(8, "passed"), Count(2, "failed")>>,
     <<Count(10, "passed")>>,
     <<Count(0, "other")>>,
     <<Count(0, "other"), Count(3, "passed"), Count(2, "failed"), Count(1, "other")>>}

\* The outputs a scoring command can write, up to MaxOut parts.
Outputs == UNION {OutputsOfLen(n) : n \in 0..MaxOut} \cup TestOutputs

ParseCalls == {[fn |-> "_parse_test_score", output |-> o] : o \in Outputs}

ParseInit ==
    /\ OrchInit
    /\ config = IdleConfig
    /\ call \in ParseCalls
    /\ ret = NoReturn

CallParseTestScore ==
    /\ call.fn = "_parse_test_score"
    /\ ~ret.done
    /\ ret' = [done |-> TRUE, value |-> _parse_test_score(call.output)]
    /\ UNCHANGED <<deadlines, workspace, engineVars, current_tasks, call, config, state,
                   persisted, pc, stepPos, gen, hypotheses, tasks, nDispatched, waits,
                   doneOrder, results, eval_results, winner_id, jobs, nextId, repo,
                   error>>

ParseNext == CallParseTestScore

SpecParse == ParseInit /\ [][ParseNext]_vars

----------------------------------------------------------------------------
(* One task from its workspace to its Evaluation: prepare_workspace, the job
   writing in the mounted workspace, evaluate *)

\* The target repository with or without the harness, whether the harness is
\* a protected path, and what the scoring command will do.
WorkspaceCalls ==
    {[fn        |-> "task",
      target    |-> Tree("orig", h, FALSE),
      protected |-> pr,
      run       |-> run] :
        h \in {"orig", Absent}, pr \in BOOLEAN,
        run \in EvalRuns \cup {CmdRun("error", 0, <<>>, 0, FALSE)}}

WorkspaceInit ==
    /\ OrchInit
    /\ config = IdleConfig
    /\ call \in WorkspaceCalls
    /\ ret = NoReturn

\* execute_generation, lines 54-56: the workspace of the task is created.
PrepareWorkspace ==
    /\ pc = "init"
    /\ call.fn = "task"
    /\ workspace' = prepare_workspace(call.target, call.protected)
    /\ pc' = "job_running"
    /\ UNCHANGED <<deadlines, engineVars, current_tasks, call, ret, config, state, persisted,
                   stepPos, gen, hypotheses, tasks, nDispatched, waits, doneOrder,
                   results, eval_results, winner_id, jobs, nextId, repo, error>>

\* The job's container has the whole workspace mounted at /workspace, writable
\* (create_job, lines 48-52 and 78-85; _make_writable): it rewrites or removes
\* the code, the harness in repo/, or the snapshot in pristine/.
JobWrite ==
    /\ pc = "job_running"
    /\ \/ workspace' = [workspace EXCEPT !.repo.code = "job"]
       \/ \E h \in {"job", Absent} :
             workspace' = [workspace EXCEPT !.repo.harness = h]
       \/ \E h \in {"job", Absent} :
             workspace' = [workspace EXCEPT !.pristine = h]
    /\ UNCHANGED <<deadlines, engineVars, current_tasks, call, ret, config, state, persisted, pc,
                   stepPos, gen, hypotheses, tasks, nDispatched, waits, doneOrder,
                   results, eval_results, winner_id, jobs, nextId, repo, error>>

\* wait_for_job returns the task's Result.
JobEnds ==
    /\ pc = "job_running"
    /\ \E st \in {"success", "failure", "timeout"} :
          results' = <<AgentResult(1, st, 0)>>
    /\ pc' = "job_done"
    /\ UNCHANGED <<deadlines, workspace, engineVars, current_tasks, call, ret, config, state,
                   persisted, stepPos, gen, hypotheses, tasks, nDispatched, waits,
                   doneOrder, eval_results, winner_id, jobs, nextId, repo, error>>

\* run_eval, line 73: the Result is evaluated in the task's workspace.
EvaluateTask ==
    /\ pc = "job_done"
    /\ \E copy_ok \in BOOLEAN, cmd_writes \in BOOLEAN :
          LET e == evaluate_workspace(workspace, results[1], call.run,
                                      copy_ok, cmd_writes)
          IN  /\ workspace' = e.ws
              /\ ret' = [done    |-> TRUE,
                         raised  |-> e.raised,
                         value   |-> evaluate(results[1], "exit-code",
                                              workspace.repo.exists, call.run),
                         started |-> e.started,
                         seen    |-> e.seen,
                         before  |-> workspace]
    /\ pc' = "evaluated"
    /\ UNCHANGED <<deadlines, engineVars, current_tasks, call, config, state, persisted,
                   stepPos, gen, hypotheses, tasks, nDispatched, waits, doneOrder,
                   results, eval_results, winner_id, jobs, nextId, repo, error>>

WorkspaceNext ==
    \/ PrepareWorkspace
    \/ JobWrite
    \/ JobEnds
    \/ EvaluateTask

SpecWorkspace == WorkspaceInit /\ [][WorkspaceNext]_vars

----------------------------------------------------------------------------
(* LocalWorkflowEngine and JobManager on their own: execute_generation with
   the poll loop of every wait_for_job, and cancel *)

\* The calls of execute_generation: 1..MaxWaits tasks, a timeout counted in
\* poll intervals.
EngineCalls ==
    {[fn      |-> "execute_generation",
      tasks   |-> create_initial_population(0, 0, n, 1),
      timeout |-> t] : n \in 1..MaxWaits, t \in 1..MaxTimeout}

EngineInit ==
    /\ config = IdleConfig
    /\ state = InitialState
    /\ persisted = NoDoc
    /\ pc = "engine_idle"
    /\ stepPos = 0
    /\ gen = 0
    /\ hypotheses = <<>>
    /\ tasks = <<>>
    /\ nDispatched = 0
    /\ waits = <<>>
    /\ doneOrder = <<>>
    /\ results = <<>>
    /\ eval_results = <<>>
    /\ winner_id = NoneId
    /\ jobs = <<>>
    /\ nextId = 1
    /\ repo = <<>>
    /\ error = ""
    /\ current_tasks = <<>>
    /\ polls = <<>>
    /\ deleteReq = {}
    /\ cancels = 0
    /\ api_up = TRUE
    /\ workspace = NoWorkspace
    /\ deadlines = <<>>
    /\ call \in EngineCalls
    /\ ret = NoReturn

\* execute_generation, lines 47-50: the call starts.
ExecuteGeneration ==
    /\ pc = "engine_idle"
    /\ call.fn = "execute_generation"
    /\ tasks' = call.tasks
    /\ current_tasks' = call.tasks
    /\ nDispatched' = 0
    /\ polls' = [i \in 1..Len(call.tasks) |-> [at |-> "poll", elapsed |-> 0]]
    /\ pc' = "dispatch"
    /\ UNCHANGED <<deadlines, workspace, deleteReq, cancels, api_up, call, ret, config, state, persisted,
                   stepPos, gen, hypotheses, waits, doneOrder, results, eval_results,
                   winner_id, jobs, nextId, repo, error>>

\* The substrate: an active job succeeds, fails, or its pod gets into a fatal
\* condition without the job reporting a success or a failure count.
JobProgress(t) ==
    /\ pc \in {"dispatch", "await_jobs"}
    /\ t \in DOMAIN jobs
    /\ jobs[t] = "active"
    /\ \E s \in {"succeeded", "failed", "fatal"} : jobs' = [jobs EXCEPT ![t] = s]
    /\ UNCHANGED <<deadlines, workspace, engineVars, current_tasks, call, ret, config, state, persisted,
                   pc, stepPos, gen, hypotheses, tasks, nDispatched, waits,
                   doneOrder, results, eval_results, winner_id, nextId, repo,
                   error>>

\* The substrate: the API server stops or starts answering; while it does not
\* answer, every request raises ApiException.
ApiChange ==
    /\ pc \in {"engine_idle", "await_jobs", "run_eval"}
    /\ api_up' = ~api_up
    /\ UNCHANGED <<deadlines, workspace, polls, deleteReq, cancels, current_tasks, call, ret, config,
                   state, persisted, pc, stepPos, gen, hypotheses, tasks,
                   nDispatched, waits, doneOrder, results, eval_results,
                   winner_id, jobs, nextId, repo, error>>

\* The answers a delete request can get: it can fail while the API server
\* answers other requests, and fails while it does not.
Answers == IF api_up THEN BOOLEAN ELSE {FALSE}

\* Mutant: the elapsed time is never over the timeout.
ExpiredNever(elapsed, timeout) == FALSE

\* wait_for_job, line 142
Expired(elapsed, timeout) == elapsed > timeout

\* wait_for_job, lines 141-182: what one iteration of the loop finds. Reading
\* the job raises when it is gone or the request fails; _check_pod_events
\* returns None when its own requests fail.
Observe(job, elapsed, timeout, read_ok, events_ok) ==
    IF Expired(elapsed, timeout) THEN "expired"
    ELSE IF ~read_ok \/ job \in {"none", "deleted"} THEN "not_found"
    ELSE IF job = "succeeded" THEN "succeeded"
    ELSE IF job = "failed" THEN "failed"
    ELSE IF job = "fatal" /\ events_ok THEN "pod_error"
    ELSE "sleep"

PollOf(kind) == CHOOSE p \in Polls : p.kind = kind

\* Mutant: only a timeout requests the deletion of the job.
TearsDownOnTimeoutOnly(kind) == kind = "expired"

\* wait_for_job, lines 143 and 173: the polls that call _delete_job.
TearsDown(kind) == kind \in {"expired", "pod_error"}

\* wait_for_job, one iteration of task i's loop: it returns a Result, after
\* _delete_job on a timeout and on a fatal pod condition, or goes to sleep.
Poll(i) ==
    /\ pc = "await_jobs"
    /\ i \in DOMAIN polls
    /\ polls[i].at = "poll"
    /\ \E del_ok \in Answers :
          LET t    == tasks[i].id
              kind == Observe(jobs[t], polls[i].elapsed, call.timeout,
                              api_up, api_up)
          IN  IF kind = "sleep"
              THEN /\ polls' = [polls EXCEPT ![i].at = "sleep"]
                   /\ UNCHANGED <<waits, doneOrder, jobs, deleteReq>>
              ELSE /\ polls' = [polls EXCEPT ![i].at = "done"]
                   /\ waits' = [waits EXCEPT ![i] = wait_for_job(t, PollOf(kind))]
                   /\ doneOrder' = Append(doneOrder, i)
                   /\ IF TearsDown(kind)
                      THEN /\ deleteReq' = deleteReq \cup {t}
                           /\ jobs' = [jobs EXCEPT ![t] = _delete_job(@, del_ok)]
                      ELSE UNCHANGED <<jobs, deleteReq>>
    /\ UNCHANGED <<deadlines, workspace, cancels, api_up, current_tasks, call, ret, config, state,
                   persisted, pc, stepPos, gen, hypotheses, tasks, nDispatched, results,
                   eval_results, winner_id, nextId, repo, error>>

\* wait_for_job, line 182: asyncio.sleep(5) returns, time has passed.
Sleep(i) ==
    /\ pc = "await_jobs"
    /\ i \in DOMAIN polls
    /\ polls[i].at = "sleep"
    /\ polls' = [polls EXCEPT ![i] =
                    [at |-> "poll", elapsed |-> Min(@.elapsed + 1, call.timeout + 1)]]
    /\ UNCHANGED <<deadlines, workspace, deleteReq, cancels, api_up, current_tasks, call, ret, config,
                   state, persisted, pc, stepPos, gen, hypotheses, tasks, nDispatched,
                   waits, doneOrder, results, eval_results, winner_id, jobs,
                   nextId, repo, error>>

\* Mutant: cancel leaves _current_tasks as it is.
CancelKeepsTasks ==
    /\ pc \in {"engine_idle", "await_jobs", "run_eval", "except_exception"}
    /\ cancels < MaxCancels
    /\ \E failing \in SUBSET Listed(jobs) :
          /\ api_up \/ failing = Listed(jobs)
          /\ jobs' = cleanup_jobs(jobs, api_up, failing)
          /\ deleteReq' = deleteReq \cup (IF api_up THEN Listed(jobs) ELSE {})
    /\ current_tasks' = current_tasks
    /\ cancels' = cancels + 1
    /\ UNCHANGED <<deadlines, workspace, polls, api_up, call, ret, config, state, persisted, pc, stepPos, gen,
                   hypotheses, tasks, nDispatched, waits, doneOrder, results,
                   eval_results, winner_id, nextId, repo, error>>

\* LocalWorkflowEngine.cancel, called by another coroutine: before a
\* generation, while its jobs are awaited, or after execute_generation ended.
Cancel ==
    /\ pc \in {"engine_idle", "await_jobs", "run_eval", "except_exception"}
    /\ cancels < MaxCancels
    /\ \E failing \in SUBSET Listed(jobs) :
          /\ api_up \/ failing = Listed(jobs)
          /\ jobs' = cleanup_jobs(jobs, api_up, failing)
          /\ deleteReq' = deleteReq \cup (IF api_up THEN Listed(jobs) ELSE {})
    /\ current_tasks' = <<>>
    /\ cancels' = cancels + 1
    /\ UNCHANGED <<deadlines, workspace, polls, api_up, call, ret, config, state, persisted, pc, stepPos, gen,
                   hypotheses, tasks, nDispatched, waits, doneOrder, results,
                   eval_results, winner_id, nextId, repo, error>>

EngineNext ==
    \/ ExecuteGeneration
    \/ DispatchTask
    \/ \E t \in 1..MaxWaits : JobProgress(t)
    \/ \E i \in 1..MaxWaits : Poll(i)
    \/ \E i \in 1..MaxWaits : Sleep(i)
    \/ GatherReturn
    \/ Cancel
    \/ ApiChange

SpecEngine == EngineInit /\ [][EngineNext]_vars

\* The event loop runs every coroutine that can run.
SpecEngineFair ==
    /\ SpecEngine
    /\ \A i \in 1..MaxWaits : WF_vars(Poll(i)) /\ WF_vars(Sleep(i))
    /\ WF_vars(GatherReturn)

----------------------------------------------------------------------------
(* Properties: the generation loop *)

Gens == state.generations

\* The greatest score of a non-empty list of Evaluations.
MaxScore(evals) ==
    CHOOSE m \in {evals[i].score : i \in 1..Len(evals)} :
        \A i \in 1..Len(evals) : evals[i].score <= m

\* The position of the highest-score Evaluation, the first one among equals.
Highest(evals) ==
    CHOOSE i \in 1..Len(evals) :
        /\ evals[i].score = MaxScore(evals)
        /\ \A j \in 1..(i - 1) : evals[j].score # MaxScore(evals)

HighestPassed(evals) == Len(evals) > 0 /\ evals[Highest(evals)].passed

SomePassed(evals) == \E i \in 1..Len(evals) : evals[i].passed

\* The positions of the records of a step.
RecordsOf(step_index) == {k \in 1..Len(Gens) : Gens[k].step_index = step_index}

\* C1: when the highest-score Evaluation of generation g passed, the loop
\* returns that task's id in generation g, exactly one record of g is appended
\* with that winner, and no task of a later generation of the step is created.
C1_PassingBestEndsStep ==
    /\ \A k \in 1..Len(Gens) :
          LET r == Gens[k]
          IN  HighestPassed(r.eval_results) =>
                /\ r.winner_id = r.eval_results[Highest(r.eval_results)].task_id
                /\ Cardinality({j \in RecordsOf(r.step_index) :
                                   Gens[j].generation = r.generation}) = 1
                /\ \A j \in RecordsOf(r.step_index) :
                      Gens[j].generation <= r.generation
                /\ \A i \in 1..Len(tasks) :
                      tasks[i].step_index = r.step_index =>
                          tasks[i].generation <= r.generation
    /\ pc = "analyze" => ~HighestPassed(eval_results)
    /\ (pc = "step_done" /\ HighestPassed(eval_results)) =>
          /\ Len(Gens) > 0
          /\ Gens[Len(Gens)].generation = gen
          /\ Gens[Len(Gens)].step_index = CurrentStep.index
          /\ Gens[Len(Gens)].eval_results = eval_results
          /\ winner_id = eval_results[Highest(eval_results)].task_id
          /\ Gens[Len(Gens)].winner_id = winner_id

\* A run of two generations at most that completed after its first generation
\* of two tasks, the second of which passed.
C1_Witness ==
    /\ pc = "returned"
    /\ state.status = "completed"
    /\ config.max_generations = 2
    /\ config.population_size = 2
    /\ Len(Gens) = 1
    /\ Gens[1].generation = 0
    /\ ~Gens[1].eval_results[1].passed
    /\ Gens[1].eval_results[2].passed
    /\ Gens[1].winner_id = Gens[1].tasks[2].id

\* pick_winner as the claims state it.
ExpectedPick(rs, evals) ==
    IF Len(evals) = 0 THEN NoneId
    ELSE IF MaxScore(evals) = 0 THEN NoneId
    ELSE rs[Highest(evals)].task_id

\* C2: when no Evaluation of any generation of a step passed, the loop runs
\* exactly G generations, appends G records, produces G-1 hypotheses (none for
\* the last generation) and returns the last generation's pick_winner result.
C2_ExhaustionRunsAllGenerations ==
    (/\ pc = "step_done"
     /\ \A k \in RecordsOf(CurrentStep.index) : ~SomePassed(Gens[k].eval_results))
    => LET recs == RecordsOf(CurrentStep.index)
           last == Gens[Len(Gens)]
       IN  /\ Cardinality(recs) = G
           /\ {Gens[k].generation : k \in recs} = 0..(G - 1)
           /\ Cardinality({k \in recs : Gens[k].hypothesis # NoHypothesis}) = G - 1
           /\ Len(hypotheses) = G - 1
           /\ last.step_index = CurrentStep.index
           /\ last.generation = G - 1
           /\ last.hypothesis = NoHypothesis
           /\ winner_id = ExpectedPick(last.results, last.eval_results)

\* Two generations of two tasks without a pass: the loop has returned the best
\* task of the second one.
C2_Witness ==
    /\ pc = "step_done"
    /\ config.max_generations = 2
    /\ config.population_size = 2
    /\ \A k \in RecordsOf(CurrentStep.index) : ~SomePassed(Gens[k].eval_results)
    /\ Len(hypotheses) = 1
    /\ winner_id # NoneId

\* C3: when some Evaluation of a generation passed, the loop ends in that
\* generation and its winner is a task whose Evaluation passed.
C3_AnyPassYieldsPassingWinner ==
    \A k \in 1..Len(Gens) :
        LET r == Gens[k]
        IN  SomePassed(r.eval_results) =>
              /\ \E i \in 1..Len(r.eval_results) :
                    /\ r.eval_results[i].passed
                    /\ r.winner_id = r.eval_results[i].task_id
              /\ \A j \in RecordsOf(r.step_index) :
                    Gens[j].generation <= r.generation

\* C4: the target repository is overwritten only with the workspace of a task
\* whose Evaluation passed.
C4_OnlyPassingWinnerCommitted ==
    \A n \in 1..Len(repo) :
        \E k \in 1..Len(Gens) :
            \E i \in 1..Len(Gens[k].eval_results) :
                /\ Gens[k].eval_results[i].task_id = repo[n]
                /\ Gens[k].eval_results[i].passed

----------------------------------------------------------------------------
(* Properties: winner selection, pairing *)

\* C5: pick_winner returns null for an empty list and for a maximum score of
\* 0.0, and else the task of the maximum-score entry, the first one among equals.
C5_PickWinnerFirstMaximum ==
    ret.done => ret.value = ExpectedPick(call.results, call.evals)

\* Three Evaluations, the first and the last share the maximum: the first wins.
C5_Witness ==
    /\ ret.done
    /\ Len(call.evals) = 3
    /\ call.evals[1].score = ScoreUnit
    /\ call.evals[2].score < ScoreUnit
    /\ call.evals[3].score = ScoreUnit
    /\ ret.value = call.results[1].task_id

TerminalStatuses == {"success", "failure", "timeout", "error"}

\* The tasks, Results and Evaluations of a record belong together position by
\* position, and its winner is the one their scores in task order determine.
Paired(r) ==
    /\ Len(r.results) = Len(r.tasks)
    /\ Len(r.eval_results) = Len(r.tasks)
    /\ \A i \in 1..Len(r.tasks) :
          /\ r.results[i].task_id = r.tasks[i].id
          /\ r.eval_results[i].task_id = r.tasks[i].id
          /\ r.results[i].status \in TerminalStatuses
    /\ r.winner_id = ExpectedPick(r.results, r.eval_results)

\* C6: whatever the order in which the jobs of a generation end,
\* execute_generation returns one Result per task once every wait has returned,
\* Results and Evaluations are paired with the tasks by position and task id,
\* and the winner is the one the scores in task order determine.
C6_PairingIgnoresCompletionOrder ==
    /\ (pc \in {"run_eval", "record", "analyze", "step_done"} /\ tasks # <<>>) =>
          /\ Len(results) = Len(tasks)
          /\ \A i \in 1..Len(tasks) :
                /\ results[i].task_id = tasks[i].id
                /\ results[i].status \in TerminalStatuses
          /\ \A i \in 1..Len(eval_results) : eval_results[i].task_id = tasks[i].id
    /\ (pc = "run_eval" /\ doneOrder # <<>>) =>
          /\ Len(doneOrder) = Len(tasks)
          /\ \A i \in 1..Len(tasks) : results[i] = waits[i]
    /\ \A k \in 1..Len(Gens) : Paired(Gens[k])

\* The second job ended first, with another status than the first one.
C6_Witness ==
    /\ pc = "run_eval"
    /\ doneOrder = <<2, 1>>
    /\ results[1].status = "timeout"
    /\ results[2].status = "success"
    /\ results[1].task_id = tasks[1].id

----------------------------------------------------------------------------
(* Properties: run status, persistence, failures *)

StatusMoves ==
    {<<"pending", "running">>, <<"running", "completed">>,
     <<"running", "failed">>, <<"running", "cancelled">>}

\* C7: the status only moves PENDING -> RUNNING -> {COMPLETED, FAILED,
\* CANCELLED}, a terminal status never changes, and a job is dispatched only
\* while the status is RUNNING.
C7_StatusOnlyMovesForward ==
    [][/\ state'.status # state.status =>
             <<state.status, state'.status>> \in StatusMoves
       /\ DOMAIN jobs' # DOMAIN jobs => state.status = "running"]_vars

\* The positions at which run is about to block or yield: infrastructure
\* check, oracle calls, dispatching and awaiting jobs, evaluation, winner commit.
BlockingPcs ==
    {"ensure_ready", "decompose", "dispatch", "await_jobs", "run_eval",
     "analyze", "step_done"}

C9_AnalysisFailureTolerated ==
    [][/\ error' = "analysis" => pc' \in {"for_gen", "step_done"}
       /\ error = "analysis" => state'.status # "failed"]_vars

\* C10: when run returns, every generation that was executed and evaluated has
\* exactly one record in the document, whatever failed afterwards.
C10_EvaluatedGenerationRecorded ==
    [][(/\ pc = "except_exception"
        /\ pc' = "returned"
        /\ tasks # <<>>
        /\ Len(eval_results) = Len(tasks))
       => /\ persisted'.kind = "doc"
          /\ Cardinality({k \in 1..Len(persisted'.doc.generations) :
                /\ persisted'.doc.generations[k].step_index = CurrentStep.index
                /\ persisted'.doc.generations[k].generation = gen}) = 1]_vars

----------------------------------------------------------------------------
(* Properties: failures and interrupts of the run *)

\* The failures of the phases of run: infrastructure check, plan
\* decomposition, generation execution, evaluation, analysis, winner commit.
PhaseErrors == {"infra", "decompose", "dispatch", "eval", "analysis", "apply"}

IsPrefix(s, t) ==
    Len(s) <= Len(t) /\ \A i \in 1..Len(s) : t[i] = s[i]

\* What the handler leaves when it returns: FAILED in the document, the
\* records persisted before as an unchanged prefix, and after a failed
\* decomposition no plan step and no record.
FailurePersisted ==
    /\ persisted'.kind = "doc"
    /\ persisted'.doc.status = "failed"
    /\ persisted.kind = "doc"
    /\ IsPrefix(persisted.doc.generations, persisted'.doc.generations)
    /\ error = "decompose" =>
          /\ persisted'.doc.plan_steps = <<>>
          /\ persisted'.doc.generations = <<>>

C12_InterruptCancelsThenCancelled ==
    [][/\ (state'.status = "cancelled" /\ state.status = "running") =>
             \A t \in DOMAIN jobs' : jobs'[t] = "deleted"
       /\ (error' = "cancelled" /\ pc' \in {"returned", "raised"}) =>
             /\ persisted'.kind = "doc"
             /\ persisted'.doc.status # "running"]_vars

----------------------------------------------------------------------------
(* Properties: the job executor and cancellation *)

\* C13: when cancel() is invoked while a generation's jobs are awaited, deletion
\* is requested for every job of the run, and from then on a poll of a pending
\* wait_for_job ends the wait: it does not go back to sleep.
C13_CancelStopsWaits ==
    [][/\ (pc = "await_jobs" /\ cancels' = cancels + 1) =>
             \A t \in DOMAIN jobs : jobs[t] # "deleted" => t \in deleteReq'
       /\ \A i \in DOMAIN polls :
             (/\ pc = "await_jobs"
              /\ current_tasks = <<>>
              /\ polls[i].at = "poll"
              /\ polls'[i].at # "poll") => polls'[i].at = "done"]_vars

\* The jobs of the run that still exist on the substrate.
Undeleted(js) == {t \in DOMAIN js : js[t] # "deleted"}

\* C14 as stated: cancel() raises no error before a generation, after one and
\* twice in a row, and leaves no current task and no job of the run undeleted,
\* so that a second call leaves the state of the first.
C14_CancelLeavesNothing ==
    [][cancels' = cancels + 1 =>
          /\ pc' = pc
          /\ error' = error
          /\ current_tasks' = <<>>
          /\ Undeleted(jobs') = {}]_vars

\* C14, amended: cancel() raises no error before a generation, after one and
\* twice in a row; it leaves no current task, requests the deletion of every
\* job the substrate lists, and changes no job otherwise. A job whose deletion
\* fails, and every job when the listing fails, stays undeleted; a call that
\* finds no current task and no undeleted job changes nothing.
C14_CancelIdempotent ==
    [][cancels' = cancels + 1 =>
          /\ pc' = pc
          /\ error' = error
          /\ waits' = waits
          /\ current_tasks' = <<>>
          /\ deleteReq' \in {deleteReq, deleteReq \cup Undeleted(jobs)}
          /\ \A t \in DOMAIN jobs :
                \/ jobs'[t] = jobs[t]
                \/ jobs'[t] = "deleted" /\ t \in deleteReq'
          /\ (current_tasks = <<>> /\ Undeleted(jobs) = {}) =>
                /\ jobs' = jobs
                /\ deleteReq' = deleteReq]_vars

\* cancel() was called twice after a generation of two tasks had returned, and
\* no job of the run is left.
C14_Witness ==
    /\ cancels = 2
    /\ pc = "run_eval"
    /\ Len(results) = 2
    /\ current_tasks = <<>>
    /\ DOMAIN jobs = {1, 2}
    /\ Undeleted(jobs) = {}

\* C15: wait_for_job returns one Result for its task, of status success,
\* failure, timeout or error and never pending or running; a Result is not
\* changed after it was returned, and execute_generation returns exactly these
\* Results, one per task of the generation.
C15_OneTerminalResultPerTask ==
    [][/\ \A i \in DOMAIN waits' :
             waits'[i] # NoResult =>
                /\ waits'[i].task_id = tasks'[i].id
                /\ waits'[i].status \in {"success", "failure", "timeout", "error"}
                /\ Cardinality({k \in DOMAIN doneOrder' : doneOrder'[k] = i}) = 1
       /\ \A i \in DOMAIN waits :
             (waits[i] # NoResult /\ pc' # "engine_idle") =>
                /\ i \in DOMAIN waits'
                /\ waits'[i] = waits[i]
       /\ pc' = "run_eval" =>
             /\ Len(results') = Len(tasks')
             /\ \A i \in DOMAIN results' : results'[i] = waits'[i]]_vars

\* execute_generation returned the Results of two tasks, one timed out and one
\* finished with a failure.
C15_Witness ==
    /\ pc = "run_eval"
    /\ Len(results) = 2
    /\ results[1].status = "timeout"
    /\ results[2].status = "failure"
    /\ results[1].task_id = tasks[1].id
    /\ results[2].task_id = tasks[2].id

\* C16: wait_for_job terminates: a poll taken after the elapsed time exceeded
\* the timeout ends the wait, and a wait ended by the timeout returns status
\* timeout after the deletion of the job was requested.
C16_WaitTerminates ==
    /\ \A i \in 1..MaxWaits :
          (pc = "await_jobs" /\ i \in DOMAIN polls)
              ~> (i \in DOMAIN polls /\ polls[i].at = "done")
    /\ [][\A i \in DOMAIN polls :
             /\ (/\ pc = "await_jobs"
                 /\ polls[i].at = "poll"
                 /\ polls[i].elapsed > call.timeout
                 /\ polls'[i] # polls[i]) =>
                   /\ polls'[i].at = "done"
                   /\ waits'[i].status = "timeout"
                   /\ tasks[i].id \in deleteReq'
             /\ (/\ pc = "await_jobs"
                 /\ waits'[i] # waits[i]
                 /\ waits'[i].status = "timeout") =>
                   /\ polls[i].elapsed > call.timeout
                   /\ tasks[i].id \in deleteReq']_vars

\* The first task's wait ended by the timeout while its job was still active
\* and the deletion request failed.
C16_Witness ==
    /\ pc = "await_jobs"
    /\ polls[1].at = "done"
    /\ polls[1].elapsed = call.timeout + 1
    /\ waits[1].status = "timeout"
    /\ tasks[1].id \in deleteReq
    /\ jobs[tasks[1].id] = "active"

\* C17: a poll that finds the job with neither a success nor a failure count
\* and the task's pod in a fatal condition ends the wait with status error,
\* after requesting the deletion of the job.
C17_FatalPodEndsWaitWithError ==
    [][\A i \in DOMAIN polls :
          (/\ pc = "await_jobs"
           /\ polls[i].at = "poll"
           /\ api_up
           /\ jobs[tasks[i].id] = "fatal"
           /\ polls'[i] # polls[i]) =>
              /\ polls'[i].at = "done"
              /\ waits'[i].status = "error"
              /\ tasks[i].id \in deleteReq']_vars

\* C18 as stated: whenever wait_for_job returns status timeout or error, the
\* deletion of the task's job was requested first, and nothing is raised.
C18_TeardownBeforeTimeoutOrError ==
    [][\A i \in DOMAIN polls :
          (/\ pc = "await_jobs"
           /\ polls[i].at = "poll"
           /\ polls'[i].at = "done"
           /\ waits'[i].status \in {"timeout", "error"}) =>
              /\ tasks[i].id \in deleteReq'
              /\ pc' = pc
              /\ error' = error]_vars

\* C18, amended: whenever wait_for_job returns status timeout, or status error
\* for a fatal pod condition, the deletion of the task's job was requested
\* first; status error for a job that could not be read is returned without a
\* deletion request. The request leaves the job deleted or as it was, raises
\* nothing, and its outcome does not show in the Result.
C18_TeardownBeforeTimeoutOrPodError ==
    [][\A i \in DOMAIN polls :
          (/\ pc = "await_jobs"
           /\ polls[i].at = "poll"
           /\ polls'[i].at = "done"
           /\ waits'[i].status \in {"timeout", "error"}) =>
              /\ pc' = pc
              /\ error' = error
              /\ jobs'[tasks[i].id] \in {"deleted", jobs[tasks[i].id]}
              /\ waits'[i].status = "timeout" =>
                    /\ polls[i].elapsed > call.timeout
                    /\ waits'[i].output = TimedOutLen
                    /\ tasks[i].id \in deleteReq'
              /\ (waits'[i].status = "error" /\ waits'[i].output = PodErrorLen) =>
                    /\ jobs[tasks[i].id] = "fatal"
                    /\ tasks[i].id \in deleteReq'
              /\ (waits'[i].status = "error" /\ waits'[i].output # PodErrorLen) =>
                    /\ waits'[i].output = JobNotFoundLen
                    /\ deleteReq' = deleteReq]_vars

\* The first task's wait ended with status error for a fatal pod condition;
\* the deletion of its job was requested and failed, the job is still there.
C18_Witness ==
    /\ pc = "await_jobs"
    /\ polls[1].at = "done"
    /\ waits[1].status = "error"
    /\ waits[1].output = PodErrorLen
    /\ tasks[1].id \in deleteReq
    /\ jobs[tasks[1].id] = "fatal"

\* C19: when provisioning the workspace or creating the job of one task fails,
\* that task gets a Result of status error, its siblings are still dispatched
\* and awaited, and the run does not become FAILED because of it.
C19_DispatchFailureIsAResult ==
    [][/\ (pc = "dispatch" /\ error' = "dispatch") =>
             /\ pc' \in {"dispatch", "await_jobs"}
             /\ nDispatched' = nDispatched + 1
       /\ error = "dispatch" => state'.status # "failed"]_vars

----------------------------------------------------------------------------
(* Properties: the evaluator *)

\* C20: for a Result whose status is neither success nor failure, evaluate
\* returns passed = false and score 0.0 for the Result's task, starts no
\* scoring command and creates no eval directory.
C20_UnfinishedResultScoresZero ==
    (ret.done /\ call.result.status \in {"pending", "running", "timeout", "error"}) =>
        /\ ret.value.task_id = call.result.task_id
        /\ ret.value.passed = FALSE
        /\ ret.value.score = 0
        /\ ~ret.effects.started
        /\ ~ret.effects.eval_dir

\* A Result of status running was evaluated although the repo copy and a
\* protected snapshot exist and the scoring command would have exited with 0.
C20_Witness ==
    /\ ret.done
    /\ call.result.status = "running"
    /\ call.repo_exists
    /\ call.pristine
    /\ call.run.kind = "exit"
    /\ call.run.exit_code = 0
    /\ ret.value.score = 0

----------------------------------------------------------------------------
(* Properties: evaluation in the task's workspace *)

\* C21: evaluate never raises: it returns an Evaluation for every Result, and
\* a scoring timeout, a command that cannot be started and an error while the
\* eval directory is built each give passed = false and score 0.
C21_EvaluateNeverRaises ==
    ret.done =>
        /\ ~ret.raised
        /\ (call.run.kind \in {"timeout", "error"} /\ Evaluable(results[1].status)) =>
               (ret.value.passed = FALSE /\ ret.value.score = 0)

\* C22: the harness the scoring command sees is the protected path's content
\* in the target repository when the workspace was provisioned, whatever the
\* job wrote in its workspace.
C22_HarnessAsProvisioned ==
    (ret.done /\ ret.started /\ call.protected /\ call.target.harness # Absent) =>
        ret.seen = call.target.harness

\* C23: after evaluate has returned, on every path, no scratch eval directory
\* remains and repo/ and pristine/ are as they were before the call.
C23_EvaluateLeavesWorkspace ==
    (ret.done /\ ~ret.raised) =>
        /\ ~workspace.eval.exists
        /\ workspace.repo = ret.before.repo
        /\ workspace.pristine = ret.before.pristine

----------------------------------------------------------------------------
(* Properties: success criteria and scores *)

\* The scoring command of the call ran to its end and evaluate applied the
\* success criteria to it.
Scored ==
    /\ ret.done
    /\ call.result.status \in {"success", "failure"}
    /\ call.repo_exists
    /\ call.run.kind = "exit"

\* C24: under a success_criteria that is neither exit-code nor output-match,
\* evaluate returns the (passed, score) it returns under exit-code for the same
\* exit code and output, the partial score of a non-zero exit included.
C24_UnknownCriteriaAsExitCode ==
    (Scored /\ call.success_criteria \notin {"exit-code", "output-match"}) =>
        LET e == evaluate(call.result, "exit-code", call.repo_exists, call.run)
        IN  /\ ret.value.passed = e.passed
            /\ ret.value.score = e.score

\* C25: every Evaluation has a score in [0, 1]; under exit-code it passed iff
\* the exit code is 0, and a passed one scores 1; under output-match it passed
\* iff the expected substring occurs in the output, and scores 1 when passed
\* and 0 otherwise.
C25_ScoreRangeAndCriteria ==
    ret.done =>
        /\ 0 <= ret.value.score /\ ret.value.score <= ScoreUnit
        /\ (Scored /\ call.success_criteria = "exit-code") =>
               /\ ret.value.passed <=> (call.run.exit_code = 0)
               /\ ret.value.passed => ret.value.score = ScoreUnit
        /\ (Scored /\ call.success_criteria = "output-match") =>
               /\ ret.value.passed <=> call.run.match
               /\ ret.value.score = IF ret.value.passed THEN ScoreUnit ELSE 0

\* Under exit-code a command that exited with 0 and printed no count was
\* evaluated: it passed with score 1.
C25_Witness ==
    /\ Scored
    /\ call.success_criteria = "exit-code"
    /\ call.run.exit_code = 0
    /\ call.run.output = <<>>
    /\ ret.value.passed
    /\ ret.value.score = ScoreUnit

\* The positions of the output that report a count of `word`.
Reports(output, word) == {i \in 1..Len(output) : output[i].word = word}

\* The count the output reports for `word`, 0 when it reports none.
Reported(output, word) ==
    IF Reports(output, word) = {} THEN 0
    ELSE output[CHOOSE i \in Reports(output, word) : TRUE].n

\* C26: for an output that reports each of the counts passed, failed, error at
\* most once, in any order and among any other text, _parse_test_score returns
\* p / (p + f + e), with 0 for a count that is absent, and 0 when no count is
\* found.
C26_PartialScore ==
    (/\ ret.done
     /\ \A w \in {"passed", "failed", "error"} :
            Cardinality(Reports(call.output, w)) <= 1) =>
        LET p == Reported(call.output, "passed")
            f == Reported(call.output, "failed")
            e == Reported(call.output, "error")
        IN  /\ p + f + e > 0 => ret.value = (p * ScoreUnit) \div (p + f + e)
            /\ p + f + e = 0 => ret.value = 0
            /\ (\A w \in {"passed", "failed", "error"} :
                    Reports(call.output, w) = {}) => ret.value = 0

\* An output that reports errors, then failures, then passes was scored.
C26_Witness ==
    /\ ret.done
    /\ Len(call.output) = 3
    /\ call.output[1].word = "error" /\ call.output[1].n = 1
    /\ call.output[2].word = "failed" /\ call.output[2].n = 1
    /\ call.output[3].word = "passed" /\ call.output[3].n = 2
    /\ ret.value = ScoreUnit \div 2

----------------------------------------------------------------------------
(* Properties: the run state store *)

\* A RunState with every Result.output and Evaluation.details cut to their
\* first 1000 characters.
Cut(st) ==
    [st EXCEPT !.generations =
        [k \in 1..Len(st.generations) |->
            [st.generations[k] EXCEPT
                !.results = [i \in 1..Len(@) |->
                    [@[i] EXCEPT !.output = Min(@, TruncLen)]],
                !.eval_results = [i \in 1..Len(@) |->
                    [@[i] EXCEPT !.details = Min(@, TruncLen)]]]]]

\* C27: save followed by load of the same run returns a RunState equal to the
\* saved one in every field (tasks with their parent hypotheses, Results with
\* their transcript path), except that Result.output and Evaluation.details
\* are cut to their first 1000 characters.
C27_SaveLoadRoundTrip ==
    (ret.done /\ call.fn = "save_load") =>
        /\ ret.raised = ""
        /\ ret.value = Cut(call.state)

\* The valid run documents of a directory, in the order of their paths.
RECURSIVE ValidRuns(_)
ValidRuns(files) ==
    IF files = <<>> THEN <<>>
    ELSE IF Head(files).kind = "doc"
    THEN <<Cut(_deserialize_state(Head(files).doc))>> \o ValidRuns(Tail(files))
    ELSE ValidRuns(Tail(files))

\* C28: list_runs over a directory of valid run documents and corrupt files
\* (no JSON, JSON of the wrong shape, missing keys, unknown status) returns
\* exactly the valid RunStates and never raises.
C28_ListRunsSkipsCorrupt ==
    (ret.done /\ call.fn = "list_runs") =>
        /\ ret.raised = ""
        /\ ret.value = ValidRuns(call.files)

\* C29: when the process ends at any point of save(state), the run's document
\* is the complete previous one or the complete new one, and a later load
\* returns a RunState that holds all GenerationRecords persisted before.
C29_SaveCrashSafe ==
    (ret.done /\ call.fn = "save") =>
        /\ persisted \in {Doc(SavedBefore), Doc(call.state)}
        /\ ret.raised = ""
        /\ Len(ret.value.generations) >= Len(SavedBefore.generations)
        /\ \A k \in 1..Len(SavedBefore.generations) :
               ret.value.generations[k] = SavedBefore.generations[k]

----------------------------------------------------------------------------
(* Properties: the populations *)

\* The ids of the tasks of the generations recorded so far.
RecordedIds ==
    UNION {{Gens[k].tasks[i].id : i \in 1..Len(Gens[k].tasks)} : k \in 1..Len(Gens)}

\* C30: create_initial_population returns exactly P tasks, each of generation
\* 0, of the requested step, without parent hypotheses, with ids that differ
\* from one another and from the id of every other task of the run (no task
\* has been recorded and no job or workspace created under one of them).
C30_InitialPopulation ==
    [][(pc = "for_gen" /\ pc' = "dispatch" /\ gen = 0) =>
          /\ Len(tasks') = P
          /\ P >= 1
          /\ \A i \in 1..Len(tasks') :
                /\ tasks'[i].generation = 0
                /\ tasks'[i].step_index = CurrentStep.index
                /\ tasks'[i].parent_hypotheses = <<>>
                /\ tasks'[i].id # NoneId
                /\ tasks'[i].id \notin RecordedIds
                /\ tasks'[i].id \notin DOMAIN jobs
                /\ \A j \in 1..Len(tasks') : i # j => tasks'[i].id # tasks'[j].id]_vars

\* The initial population of two tasks of the second step has been created
\* after the first step recorded a generation.
C30_Witness ==
    /\ pc = "dispatch"
    /\ gen = 0
    /\ stepPos = 2
    /\ nDispatched = 0
    /\ Len(tasks) = 2
    /\ Len(Gens) >= 1
    /\ tasks[1].id # tasks[2].id

\* The task carries the hypotheses of generations 0..g-1 of its own step, in
\* order, and none when it is of generation 0.
CarriesStepHypotheses(t) ==
    /\ Len(t.parent_hypotheses) = t.generation
    /\ \A j \in 1..t.generation :
          \E k \in 1..Len(Gens) :
              /\ Gens[k].step_index = t.step_index
              /\ Gens[k].generation = j - 1
              /\ Gens[k].hypothesis # NoHypothesis
              /\ Gens[k].hypothesis = t.parent_hypotheses[j]

\* C31: every task of generation g >= 1 of a step carries as parent hypotheses
\* exactly the hypotheses produced by generations 0..g-1 of that step, in
\* order; a task of generation 0 carries none, so no hypothesis of an earlier
\* step reaches a task of a later step.
C31_ParentsAreStepHypotheses ==
    /\ \A i \in 1..Len(tasks) : CarriesStepHypotheses(tasks[i])
    /\ \A k \in 1..Len(Gens) :
          \A i \in 1..Len(Gens[k].tasks) : CarriesStepHypotheses(Gens[k].tasks[i])

\* The second generation of the second step is about to be dispatched; the
\* first step has produced a hypothesis of its own.
C31_Witness ==
    /\ pc = "dispatch"
    /\ stepPos = 2
    /\ gen = 1
    /\ Len(tasks) = 1
    /\ Len(tasks[1].parent_hypotheses) = 1
    /\ Len(state.hypotheses) = 2
    /\ tasks[1].parent_hypotheses[1] = state.hypotheses[2]

\* C32: the tasks of one generation have pairwise distinct prompts: the
\* prompts built for two different variant indexes below the population size
\* differ.
C32_DistinctPrompts ==
    ret.done =>
        /\ Len(ret.value) = call.population_size
        /\ \A i \in 1..Len(ret.value) : \A j \in 1..Len(ret.value) :
               i # j => ret.value[i].prompt # ret.value[j].prompt

\* C33: a Hypothesis is produced only for a generation without a passing
\* Evaluation that is not the last allowed one: every Hypothesis of the
\* RunState has a generation below G-1, and the record that holds it has no
\* passing Evaluation.
C33_HypothesisOnlyWithoutPass ==
    /\ \A i \in 1..Len(state.hypotheses) : state.hypotheses[i].generation < G - 1
    /\ \A k \in 1..Len(Gens) :
          Gens[k].hypothesis # NoHypothesis =>
              /\ Gens[k].hypothesis.generation = Gens[k].generation
              /\ Gens[k].generation < G - 1
              /\ \A i \in 1..Len(Gens[k].eval_results) :
                     ~Gens[k].eval_results[i].passed

----------------------------------------------------------------------------
(* Properties: the target repository *)

\* C34: the target repository is written only by the commit of a step's
\* winner, at most once per step, after the step's generation loop has
\* returned and while no job is being dispatched or awaited; the steps are
\* taken in plan order, so the workspaces of a step are copied from the
\* repository only after the commit of the step before.
C34_RepoWrittenByCommitOnly ==
    [][/\ repo' # repo =>
             /\ pc = "step_done"
             /\ winner_id # NoneId
             /\ repo' = Append(repo, winner_id)
             /\ Len(repo') <= stepPos
             /\ \E k \in RecordsOf(CurrentStep.index) :
                    \E i \in 1..Len(Gens[k].tasks) : Gens[k].tasks[i].id = winner_id
             /\ waits = <<>>
             /\ jobs' = jobs
       /\ pc \in {"dispatch", "await_jobs", "run_eval"} => repo' = repo
       /\ (pc = "dispatch" /\ jobs' # jobs) =>
             /\ Len(repo) <= stepPos - 1
             /\ \A k \in 1..Len(Gens) : Gens[k].step_index <= CurrentStep.index
       /\ stepPos' \in {0, stepPos, stepPos + 1}
       /\ (stepPos > 0 /\ stepPos' = stepPos + 1) => pc = "step_done"]_vars

\* Two steps have committed their winners, the second after the first.
C34_Witness ==
    /\ pc = "for_step"
    /\ stepPos = 3
    /\ Len(repo) = 2
    /\ repo[1] # repo[2]

----------------------------------------------------------------------------
(* Properties: termination of the run *)

\* C35: run terminates; every step is taken once, in plan order, and runs at
\* most G generations; a run without exception or interrupt ends COMPLETED,
\* also when no step or generation produced a winner.
C35_RunTerminates ==
    /\ <>(pc \in {"returned", "raised"})
    /\ [][/\ (pc = "for_step" /\ pc' = "for_gen") =>
                /\ CurrentStep.index = stepPos - 1
                /\ RecordsOf(CurrentStep.index) = {}
                /\ \A k \in 1..Len(Gens) : Gens[k].step_index < CurrentStep.index
          /\ (pc = "for_gen" /\ pc' = "dispatch") =>
                /\ gen < config.max_generations
                /\ Cardinality(RecordsOf(CurrentStep.index)) = gen
          /\ (pc = "show_completed" /\ pc' = "returned") =>
                /\ state'.status = "completed"
                /\ stepPos = Len(state.plan_steps) + 1
                /\ \A k \in 1..Len(Gens) :
                       Cardinality(RecordsOf(Gens[k].step_index)) <= config.max_generations
          /\ pc' = "returned" =>
                pc \in {"show_completed", "except_exception", "except_interrupt"}]_vars

\* A run of two steps of two generations has returned COMPLETED although no
\* generation had a winner and the repository was never written.
C35_Witness ==
    /\ pc = "returned"
    /\ state.status = "completed"
    /\ Len(state.plan_steps) = 2
    /\ config.max_generations = 2
    /\ Len(Gens) = 4
    /\ \A k \in 1..Len(Gens) : Gens[k].winner_id = NoneId
    /\ repo = <<>>

----------------------------------------------------------------------------
(* Properties: what a poll makes of a finished job *)

\* C36: a poll that can read the job and finds it succeeded (failed) ends the
\* wait with a Result of status success (failure) collected from the task's
\* results directory, whatever time has elapsed and whatever the pod reports.
C36_FinishedJobYieldsItsResult ==
    [][\A i \in DOMAIN polls :
          (/\ pc = "await_jobs"
           /\ polls[i].at = "poll"
           /\ api_up
           /\ jobs[tasks[i].id] \in {"succeeded", "failed"}
           /\ polls'[i] # polls[i]) =>
              /\ polls'[i].at = "done"
              /\ waits'[i] = _collect_result(
                     tasks[i].id,
                     IF jobs[tasks[i].id] = "succeeded" THEN "success" ELSE "failure",
                     PollOf(jobs[tasks[i].id]))
              /\ jobs'[tasks[i].id] = jobs[tasks[i].id]]_vars

----------------------------------------------------------------------------
(* Properties: the time budget of a job *)

\* C37: the time budget every created job was given is the configured
\* per-task timeout: it is positive and no smaller than the timeout of the
\* wait loop, whatever the generation of the task or of its parent hypotheses.
C37_DeadlineIsConfiguredTimeout ==
    \A t \in DOMAIN deadlines :
        /\ deadlines[t] = config.timeout
        /\ deadlines[t] > 0
        /\ deadlines[t] >= config.timeout

----------------------------------------------------------------------------
(* Properties: the analyzer's ordering *)

\* Position i of the sorted pairing of a record: the pairs before it in the
\* descending, stable order are those of greater score and the earlier ones
\* of equal score.
Rank(evals, i) ==
    1 + Cardinality({j \in 1..Len(evals) :
                        \/ evals[j].score > evals[i].score
                        \/ (evals[j].score = evals[i].score /\ j < i)})

\* C38: the Hypothesis analyze returns for a generation names as winner the
\* task of the first pair in the descending, stable ordering by score, i.e.
\* the first-occurring task of maximum score, and carries the generation it
\* was called with.
C38_AnalyzeNamesFirstOfSortedPairs ==
    \A k \in 1..Len(Gens) :
        Gens[k].hypothesis # NoHypothesis =>
            /\ Gens[k].hypothesis.generation = Gens[k].generation
            /\ \E i \in 1..Len(Gens[k].eval_results) :
                  /\ Rank(Gens[k].eval_results, i) = 1
                  /\ Gens[k].hypothesis.winner_id = Gens[k].results[i].task_id
                  /\ \A j \in 1..Len(Gens[k].eval_results) :
                        Gens[k].eval_results[j].score <= Gens[k].eval_results[i].score
                  /\ \A j \in 1..(i - 1) :
                        Gens[k].eval_results[j].score < Gens[k].eval_results[i].score

\* A generation got a Hypothesis while its two tasks had the same positive
\* score: the winner named is the first of the two.
C38_Witness ==
    \E k \in 1..Len(Gens) :
        /\ Gens[k].hypothesis # NoHypothesis
        /\ Gens[k].generation = 0
        /\ Len(Gens[k].eval_results) = 2
        /\ Gens[k].eval_results[1].score = Gens[k].eval_results[2].score
        /\ Gens[k].eval_results[1].score > 0
        /\ Gens[k].hypothesis.winner_id = Gens[k].results[1].task_id
        /\ Gens[k].hypothesis.generation = 0

----------------------------------------------------------------------------
(* Properties: the persisted history *)

\* The records of a persisted document that hold a hypothesis.
Holders(d) == {k \in 1..Len(d.generations) : d.generations[k].hypothesis # NoHypothesis}

\* The persisted records are in plan-step order, their generations start at
\* 0 and are contiguous within a step, at most G of them per step.
RecordsInOrder(d) ==
    /\ \A k \in 1..Len(d.generations) :
          IF k = 1
          THEN d.generations[k].generation = 0
          ELSE \/ /\ d.generations[k].step_index = d.generations[k - 1].step_index
                  /\ d.generations[k].generation = d.generations[k - 1].generation + 1
               \/ /\ d.generations[k].step_index > d.generations[k - 1].step_index
                  /\ d.generations[k].generation = 0
    /\ \A k \in 1..Len(d.generations) :
          d.generations[k].generation < config.max_generations

\* C39: in every persisted RunState the run's hypotheses are, in order, the
\* hypotheses held by its records, each the hypothesis of the record of its
\* own generation; the records are in plan-step order with contiguous
\* generations, at most G per step.
C39_PersistedHypothesesAreTheRecords ==
    persisted.kind = "doc" =>
        LET d == persisted.doc
        IN  /\ Len(d.hypotheses) = Cardinality(Holders(d))
            /\ \A k \in Holders(d) :
                  LET n == Cardinality({j \in Holders(d) : j <= k})
                  IN  /\ n <= Len(d.hypotheses)
                      /\ d.hypotheses[n] = d.generations[k].hypothesis
                      /\ d.hypotheses[n].generation = d.generations[k].generation
            /\ RecordsInOrder(d)

----------------------------------------------------------------------------
(* Properties: the jobs a run leaves behind *)

\* C40: when run has returned, with whatever terminal status, every job the
\* run created has reported success or failure or has had its deletion
\* requested; none is left active, also not those of a generation that a
\* failing dispatch or wait has aborted.
C40_NoJobLeftActive ==
    pc = "returned" =>
        /\ state.status \in {"completed", "failed", "cancelled"}
        /\ \A t \in DOMAIN jobs : jobs[t] \in {"succeeded", "failed", "deleted"}

====
